---- MODULE Spec2Model ----
(***************************************************************************)
(* Model of the a-rival SQ100 device protocol of sq100/arival_sq100.py:    *)
(* the framing codec (calc_checksum, create_message, unpack_message), the  *)
(* record decoders, and the session protocol of query / query_track_list / *)
(* query_tracks run against a device that answers each request with an     *)
(* arbitrary reply; SerialConnection.query of sq100/serial_connection.py;  *)
(* and parse_range, download_tracks and get_latest_track_id of             *)
(* sq100/cli.py.                                                           *)
(*                                                                         *)
(* Bytes are numbers 0..255, byte strings are sequences of bytes.  A Python*)
(* call that may raise is an operator returning [exc, val]: exc is "none"  *)
(* and val the returned value, or exc names the exception raised.          *)
(***************************************************************************)
EXTENDS Integers, Sequences, FiniteSets, TLC

VARIABLES
    byteorder,      \* sys.byteorder of the host ("little" or "big")
    \* ---- codec runs: one call chain on one input
    h_pc,           \* the call to make next, or what was made last
    h_path,         \* the call chain: "outbound", "inbound", "lookup", "pack", "decode"
    h_command,      \* argument command of create_message
    h_parameter,    \* argument parameter of create_message / payload of calc_checksum
    h_checksum,     \* the value calc_checksum returned
    h_raw,          \* the byte string handed to unpack_message
    h_result,       \* what the last call returned or raised
    h_entries,      \* argument tracks of track_ids_to_memory_indices
    h_ids,          \* argument track_ids of track_ids_to_memory_indices
    h_indices,      \* argument memory_indices of pack_get_tracks_parameter
    h_encoded,      \* the values the device encoded in h_raw
    h_astr,         \* argument astr of parse_range, a sequence of characters
    \* ---- one run of query_tracks against the device
    entry,          \* the function the caller called
    pc,             \* the statement of query_tracks / query to run next
    track_ids,      \* argument track_ids of query_tracks
    site,           \* the call site of the query in progress
    q_command,      \* argument command of query
    q_parameter,    \* argument parameter of query
    begin,          \* local begin of query
    rest,           \* local rest of query
    msg,            \* the Message query returned last
    track_list,     \* local track_list
    memory_indices, \* local memory_indices
    no_done,        \* completed iterations of the for loop
    track_info,     \* local track_info
    laps,           \* local laps
    track_points,   \* local track_points
    tracks,         \* local tracks, the value returned
    exc,            \* the exception that ended the run, or "none"
    rx,             \* bytes the device has sent and the host has not read
    wire,           \* history: the writes and reads the transport has seen
    consumed,       \* history: the replies handed to a decoder, in order
    unvalidated,    \* history: a reply was read and is not yet validated
    \* ---- one call of SerialConnection.query
    sc_pc,          \* the statement of SerialConnection.query to run next
    sc_command,     \* argument command
    sc_attempt,     \* loop variable attempt: the attempts that read no data
    sc_data,        \* local data, what the last read returned
    sc_result,      \* what the call returned or raised
    sc_log,         \* history: the writes and reads of the serial port
    \* ---- calls of cli.download_tracks, one after the other
    cli_pc,         \* the statement of download_tracks to run next
    cli_calls,      \* the calls of download_tracks begun so far
    cli_latest,     \* argument latest
    cli_merge,      \* argument merge
    cli_arg,        \* track_ids is "supplied" by the caller or the "default"
    cli_default,    \* the list object that is the default of track_ids
    cli_list,       \* the list object the caller supplies
    cli_given,      \* history: the value of track_ids when the call began
    cli_catalog,    \* the track list the device holds during the call
    cli_events,     \* history: the calls into arival_sq100 of this call
    cli_tracks,     \* local tracks
    cli_files,      \* the files written so far
    cli_outcome     \* how the last call ended: "returned" or an exception

request_args == <<h_entries, h_ids, h_indices, h_encoded, h_astr>>

codec_vars ==
    <<h_pc, h_path, h_command, h_parameter, h_checksum, h_raw, h_result,
      request_args>>

session_vars ==
    <<entry, pc, track_ids, site, q_command, q_parameter, begin, rest, msg,
      track_list, memory_indices, no_done, track_info, laps, track_points,
      tracks, exc, rx, wire, consumed, unvalidated>>

connection_vars ==
    <<sc_pc, sc_command, sc_attempt, sc_data, sc_result, sc_log>>

cli_vars ==
    <<cli_pc, cli_calls, cli_latest, cli_merge, cli_arg, cli_default,
      cli_list, cli_given, cli_catalog, cli_events, cli_tracks, cli_files,
      cli_outcome>>

host_vars == <<connection_vars, cli_vars>>

vars == <<byteorder, codec_vars, session_vars, host_vars>>

----------------------------------------------------------------------------
(* Bounds of the model *)

MaxParamLen == 2
MaxRawLen == 6
MaxRequestLen == 3
MaxRecords == 2
MaxParts == 3
MaxExchanges == 9
MaxCalls == 2

----------------------------------------------------------------------------
(* Program constants *)

start_sequence == 2
CMD_FINISH == 138
CMD_LIST == 120
CMD_GET_TRACKS == 128
CMD_NEXT == 129

----------------------------------------------------------------------------
(* Bytes *)

Byte == 0..255

RECURSIVE XorBits(_, _, _)
XorBits(a, b, n) ==
    IF n = 0 THEN 0
    ELSE (((a % 2) + (b % 2)) % 2) + 2 * XorBits(a \div 2, b \div 2, n - 1)

\* Python's x ^ y on two byte values, tabulated once
XorTable == [x \in Byte |-> [y \in Byte |-> XorBits(x, y, 8)]]

xor(x, y) == XorTable[x][y]

\* functools.reduce(lambda x, y: x ^ y, data): a left fold seeded with data[0].
\* reduce_range(x, data, lo, hi) is the accumulator after folding data[lo..hi]
\* into x from left to right; the range is split in two only to keep the
\* evaluation shallow, the bytes enter the accumulator in their order.  The
\* test left \in Byte is always true: it makes TLC evaluate left before it
\* descends into the right half.
RECURSIVE reduce_range(_, _, _, _)
reduce_range(x, data, lo, hi) ==
    IF lo > hi THEN x
    ELSE IF lo = hi THEN xor(x, data[lo])
    ELSE LET mid == (lo + hi) \div 2
             left == reduce_range(x, data, lo, mid)
         IN  IF left \in Byte THEN reduce_range(left, data, mid + 1, hi) ELSE left

reduce_xor(data) == reduce_range(data[1], data, 2, Len(data))

\* struct.pack("H", n): two bytes in the host's native order
pack_H_native(n) ==
    IF byteorder = "little" THEN <<n % 256, n \div 256>>
    ELSE <<n \div 256, n % 256>>

\* struct.pack(">H", n): two bytes, most significant first
pack_H_be(n) == <<n \div 256, n % 256>>

\* struct.unpack(">H", b)
unpack_H_be(b, off) == 256 * b[off] + b[off + 1]

Bit(b, k) == (b \div (2 ^ k)) % 2

\* bit k of the exclusive-or of all bytes of data: the parity of the number
\* of bytes that have bit k set
ParityBit(data, k) == Cardinality({i \in DOMAIN data : Bit(data[i], k) = 1}) % 2

XorOfAll(data) ==
    ParityBit(data, 0) + 2 * ParityBit(data, 1) + 4 * ParityBit(data, 2)
    + 8 * ParityBit(data, 3) + 16 * ParityBit(data, 4) + 32 * ParityBit(data, 5)
    + 64 * ParityBit(data, 6) + 128 * ParityBit(data, 7)

\* len_be16(data) ++ data, as the device and the claims write it
WithLengthBE(data) == <<Len(data) \div 256, Len(data) % 256>> \o data

Ok(v) == [exc |-> "none", val |-> v]

Raise(e) == [exc |-> e, val |-> <<>>]

----------------------------------------------------------------------------
(* Framing codec *)

calc_checksum_no_length(payload) ==
    IF payload = <<>> THEN 0 ELSE reduce_xor(payload)

calc_checksum(payload) ==
    LET payload_len == pack_H_native(Len(payload))
    IN  reduce_xor(payload_len \o payload)

create_message_param_only(command, parameter) ==
    LET payload == <<command>> \o parameter
        payload_length == Len(parameter)
        checksum == calc_checksum(parameter)
    IN  <<start_sequence>> \o pack_H_be(payload_length) \o payload \o <<checksum>>

create_message_start_in_checksum(command, parameter) ==
    LET payload == <<command>> \o parameter
        payload_length == Len(payload)
        checksum == xor(start_sequence, calc_checksum(payload))
    IN  <<start_sequence>> \o pack_H_be(payload_length) \o payload \o <<checksum>>

create_message(command, parameter) ==
    LET payload == <<command>> \o parameter
        payload_length == Len(payload)
        checksum == calc_checksum(payload)
    IN  <<start_sequence>> \o pack_H_be(payload_length) \o payload \o <<checksum>>

\* struct.unpack(">BH%dsB" % (len(message) - 4), message)
Message_make(message) ==
    [command |-> message[1],
     payload_length |-> unpack_H_be(message, 2),
     parameter |-> SubSeq(message, 4, Len(message) - 1),
     checksum |-> message[Len(message)]]

unpack_message_no_checksum(message) ==
    IF Len(message) < 4 THEN Raise("struct.error")
    ELSE LET m == Message_make(message)
         IN  IF m.payload_length # Len(m.parameter)
             THEN Raise("SQ100MessageException")
             ELSE Ok(m)

unpack_message_no_length(message) ==
    IF Len(message) < 4 THEN Raise("struct.error")
    ELSE LET m == Message_make(message)
         IN  IF m.checksum # calc_checksum(m.parameter)
             THEN Raise("SQ100MessageException")
             ELSE Ok(m)

unpack_message(message) ==
    IF Len(message) < 4 THEN Raise("struct.error")
    ELSE LET m == Message_make(message)
         IN  IF m.payload_length # Len(m.parameter)
             THEN Raise("SQ100MessageException")
             ELSE IF m.checksum # calc_checksum(m.parameter)
             THEN Raise("SQ100MessageException")
             ELSE Ok(m)

----------------------------------------------------------------------------
(* Codec runs: the inputs *)

SeqsUpTo(S, n) == UNION {[1..k -> S] : k \in 0..n}

Commands == {0, 2, 120, 128, 129, 138, 255}

ParamBytes == {0, 66, 255}

\* payloads long enough for the high length byte to be non-zero
LongParams == {[i \in 1..n |-> b] : n \in {255, 256, 513}, b \in {0, 165}}

Parameters == SeqsUpTo(ParamBytes, MaxParamLen) \cup LongParams

RawBytes == {0, 1, 2, 3}

RawMessages == SeqsUpTo(RawBytes, MaxRawLen)

CodecIdle ==
    /\ h_pc = "idle"
    /\ h_path = "none"
    /\ h_command = 0
    /\ h_parameter = <<>>
    /\ h_checksum = 0
    /\ h_raw = <<>>
    /\ h_result = Raise("none yet")
    /\ h_entries = <<>>
    /\ h_ids = <<>>
    /\ h_indices = <<>>
    /\ h_encoded = <<>>
    /\ h_astr = <<>>

CodecInit ==
    /\ byteorder \in {"little", "big"}
    /\ h_checksum = 0
    /\ h_result = Raise("none yet")
    /\ h_entries = <<>>
    /\ h_ids = <<>>
    /\ h_indices = <<>>
    /\ h_encoded = <<>>
    /\ h_astr = <<>>
    /\ \/ /\ h_pc = "input"
          /\ h_path = "outbound"
          /\ h_command \in Commands
          /\ h_parameter \in Parameters
          /\ h_raw = <<>>
       \/ /\ h_pc = "received"
          /\ h_path = "inbound"
          /\ h_command = 0
          /\ h_parameter = <<>>
          /\ h_raw \in RawMessages

CalcChecksum ==
    /\ h_pc = "input"
    /\ h_checksum' = calc_checksum(h_parameter)
    /\ h_pc' = "summed"
    /\ UNCHANGED <<byteorder, h_path, h_command, h_parameter, h_raw, h_result,
                   request_args, session_vars, host_vars>>

CreateMessage ==
    /\ h_pc = "summed"
    /\ h_raw' = create_message(h_command, h_parameter)
    /\ h_pc' = "created"
    /\ UNCHANGED <<byteorder, h_path, h_command, h_parameter, h_checksum, h_result,
                   request_args, session_vars, host_vars>>

UnpackMessage ==
    /\ h_pc \in {"created", "received"}
    /\ h_result' = unpack_message(h_raw)
    /\ h_pc' = "unpacked"
    /\ UNCHANGED <<byteorder, h_path, h_command, h_parameter, h_checksum, h_raw,
                   request_args, session_vars, host_vars>>

CodecNext == CalcChecksum \/ CreateMessage \/ UnpackMessage


----------------------------------------------------------------------------
(* Record decoders *)

\* fields of a struct.unpack(">...") at the 0-based offset o of byte string b
U8(b, o) == b[o + 1]
U16(b, o) == 256 * b[o + 1] + b[o + 2]
U32(b, o) ==
    16777216 * b[o + 1] + 65536 * b[o + 2] + 256 * b[o + 3] + b[o + 4]
\* a signed field "i": two's complement, the top byte carries the sign
I32(b, o) ==
    16777216 * (IF b[o + 1] >= 128 THEN b[o + 1] - 256 ELSE b[o + 1])
    + 65536 * b[o + 2] + 256 * b[o + 3] + b[o + 4]

\* parameter[:n] and parameter[n:]
Take(b, n) == SubSeq(b, 1, IF n < Len(b) THEN n ELSE Len(b))
Drop(b, n) == SubSeq(b, n + 1, Len(b))

\* the k-th chunk of size bytes that struct.iter_unpack yields
Chunk(b, size, k) == SubSeq(b, size * (k - 1) + 1, size * k)

IsLeap(y) == (y % 4 = 0 /\ y % 100 # 0) \/ y % 400 = 0

DaysInMonth(y, m) ==
    IF m = 2 THEN (IF IsLeap(y) THEN 29 ELSE 28)
    ELSE IF m \in {4, 6, 9, 11} THEN 30 ELSE 31

\* the arguments of datetime.datetime(2000 + year, month, day, hour, minute,
\* second) read from the first six bytes of a header
datetime_args(t) ==
    [year |-> 2000 + U8(t, 0), month |-> U8(t, 1), day |-> U8(t, 2),
     hour |-> U8(t, 3), minute |-> U8(t, 4), second |-> U8(t, 5)]

\* datetime.datetime(...) raises ValueError unless the fields are in range
datetime_valid(d) ==
    /\ d.month \in 1..12
    /\ d.day \in 1..DaysInMonth(d.year, d.month)
    /\ d.hour \in 0..23
    /\ d.minute \in 0..59
    /\ d.second \in 0..59

\* datetime.timedelta(seconds=round(n / 10, 1)): a timedelta holds days,
\* seconds (0..86399) and microseconds (0..999999)
timedelta_of_deciseconds(n) ==
    [days |-> n \div 864000,
     seconds |-> (n \div 10) % 86400,
     microseconds |-> (n % 10) * 100000]

\* round(n * 10^-places, places): a decimal number with places digits
Decimal(n, places) == [scaled |-> n, places |-> places]

\* TrackHead(date, no_track_points, duration, distance, no_laps) of a header
TrackHead_of(t) ==
    [date |-> datetime_args(t),
     no_track_points |-> U32(t, 6),
     duration |-> timedelta_of_deciseconds(U32(t, 10)),
     distance |-> U32(t, 14),
     no_laps |-> U16(t, 18)]

Lap_of_total_time_from_duration(r) ==
    [duration |-> timedelta_of_deciseconds(U32(r, 0)),
     total_time |-> timedelta_of_deciseconds(U32(r, 0)),
     distance |-> U32(r, 8),
     calories |-> U16(r, 12),
     max_speed |-> U16(r, 16),
     max_heart_rate |-> U8(r, 18),
     avg_heart_rate |-> U8(r, 19),
     min_height |-> U16(r, 20),
     max_height |-> U16(r, 22),
     first_index |-> U16(r, 37),
     last_index |-> U16(r, 39)]

\* one record of ">3I3H2B2H13s2H" (41 bytes)
Lap_of(r) ==
    [duration |-> timedelta_of_deciseconds(U32(r, 0)),
     total_time |-> timedelta_of_deciseconds(U32(r, 4)),
     distance |-> U32(r, 8),
     calories |-> U16(r, 12),
     max_speed |-> U16(r, 16),
     max_heart_rate |-> U8(r, 18),
     avg_heart_rate |-> U8(r, 19),
     min_height |-> U16(r, 20),
     max_height |-> U16(r, 22),
     first_index |-> U16(r, 37),
     last_index |-> U16(r, 39)]

unpack_lap_info_parameter_no_tag_check(parameter) ==
    LET t == Take(parameter, 29)
        records == Drop(parameter, 29)
    IN  IF Len(t) # 29 THEN Raise("struct.error")
        ELSE IF ~datetime_valid(datetime_args(t)) THEN Raise("ValueError")
        ELSE IF Len(records) % 41 # 0 THEN Raise("struct.error")
        ELSE Ok([head |-> TrackHead_of(t),
                 laps |-> [k \in 1..(Len(records) \div 41) |->
                              Lap_of(Chunk(records, 41, k))]])

unpack_lap_info_parameter(parameter) ==
    LET t == Take(parameter, 29)
        records == Drop(parameter, 29)
    IN  IF Len(t) # 29 THEN Raise("struct.error")
        ELSE IF U8(t, 28) # 170 THEN Raise("SQ100MessageException")
        ELSE IF ~datetime_valid(datetime_args(t)) THEN Raise("ValueError")
        ELSE IF Len(records) % 41 # 0 THEN Raise("struct.error")
        ELSE Ok([head |-> TrackHead_of(t),
                 laps |-> [k \in 1..(Len(records) \div 41) |->
                              Lap_of(Chunk(records, 41, k))]])

unpack_track_info_parameter_ignoring_extra_bytes(parameter) ==
    LET header == Take(parameter, 29)
        info == Take(Drop(parameter, 29), 29)
    IN  IF Len(header) # 29 THEN Raise("struct.error")
        ELSE IF U8(header, 28) # 0 THEN Raise("SQ100MessageException")
        ELSE IF Len(info) # 29 THEN Raise("struct.error")
        ELSE IF ~datetime_valid(datetime_args(header)) THEN Raise("ValueError")
        ELSE Ok([date |-> datetime_args(header),
                 no_track_points |-> U32(header, 6),
                 duration |-> timedelta_of_deciseconds(U32(header, 10)),
                 distance |-> U32(header, 14),
                 no_laps |-> U16(header, 18),
                 memory_block_index |-> U16(header, 22),
                 id |-> U16(header, 26),
                 calories |-> U16(info, 0),
                 max_speed |-> U16(info, 4),
                 max_heart_rate |-> U8(info, 6),
                 avg_heart_rate |-> U8(info, 7),
                 ascending_height |-> U16(info, 8),
                 descending_height |-> U16(info, 10),
                 min_height |-> U16(info, 12),
                 max_height |-> U16(info, 14)])

unpack_track_info_parameter(parameter) ==
    LET header == Take(parameter, 29)
        info == Drop(parameter, 29)
    IN  IF Len(header) # 29 THEN Raise("struct.error")
        ELSE IF U8(header, 28) # 0 THEN Raise("SQ100MessageException")
        ELSE IF Len(info) # 29 THEN Raise("struct.error")
        ELSE IF ~datetime_valid(datetime_args(header)) THEN Raise("ValueError")
        ELSE Ok([date |-> datetime_args(header),
                 no_track_points |-> U32(header, 6),
                 duration |-> timedelta_of_deciseconds(U32(header, 10)),
                 distance |-> U32(header, 14),
                 no_laps |-> U16(header, 18),
                 memory_block_index |-> U16(header, 22),
                 id |-> U16(header, 26),
                 calories |-> U16(info, 0),
                 max_speed |-> U16(info, 4),
                 max_heart_rate |-> U8(info, 6),
                 avg_heart_rate |-> U8(info, 7),
                 ascending_height |-> U16(info, 8),
                 descending_height |-> U16(info, 10),
                 min_height |-> U16(info, 12),
                 max_height |-> U16(info, 14)])

TrackPoint_of_latitude_and_longitude_swapped(r) ==
    [latitude |-> Decimal(I32(r, 4), 6),
     longitude |-> Decimal(I32(r, 0), 6),
     altitude |-> U16(r, 8),
     speed |-> Decimal(U16(r, 12), 2),
     heart_rate |-> U8(r, 14),
     interval |-> timedelta_of_deciseconds(U16(r, 17))]

\* one record of ">2i3HBHH6s" (25 bytes)
TrackPoint_of(r) ==
    [latitude |-> Decimal(I32(r, 0), 6),
     longitude |-> Decimal(I32(r, 4), 6),
     altitude |-> U16(r, 8),
     speed |-> Decimal(U16(r, 12), 2),
     heart_rate |-> U8(r, 14),
     interval |-> timedelta_of_deciseconds(U16(r, 17))]

unpack_track_point_parameter(parameter) ==
    LET t == Take(parameter, 29)
        records == Drop(parameter, 29)
    IN  IF Len(t) # 29 THEN Raise("struct.error")
        ELSE IF U8(t, 28) # 85 THEN Raise("SQ100MessageException")
        ELSE IF ~datetime_valid(datetime_args(t)) THEN Raise("ValueError")
        ELSE IF Len(records) % 25 # 0 THEN Raise("struct.error")
        ELSE Ok([head |-> TrackHead_of(t),
                 session_indices |-> <<U32(t, 20), U32(t, 24)>>,
                 track_points |-> [k \in 1..(Len(records) \div 25) |->
                                      TrackPoint_of(Chunk(records, 25, k))]])

TrackListEntry_of_id_and_index_swapped(t) ==
    [date |-> datetime_args(t),
     no_laps |-> U16(t, 18),
     duration |-> timedelta_of_deciseconds(U32(t, 10)),
     distance |-> U32(t, 14),
     no_track_points |-> U32(t, 6),
     memory_block_index |-> U16(t, 26),
     id |-> U16(t, 22)]

\* one record of ">6B3I5HB" (29 bytes) of the track list
TrackListEntry_of(t) ==
    [date |-> datetime_args(t),
     no_laps |-> U16(t, 18),
     duration |-> timedelta_of_deciseconds(U32(t, 10)),
     distance |-> U32(t, 14),
     no_track_points |-> U32(t, 6),
     memory_block_index |-> U16(t, 22),
     id |-> U16(t, 26)]

unpack_track_list_parameter(parameter) ==
    LET n == Len(parameter) \div 29
    IN  IF Len(parameter) % 29 # 0 THEN Raise("struct.error")
        ELSE IF \E k \in 1..n :
                    ~datetime_valid(datetime_args(Chunk(parameter, 29, k)))
        THEN Raise("ValueError")
        ELSE Ok([k \in 1..n |-> TrackListEntry_of(Chunk(parameter, 29, k))])

----------------------------------------------------------------------------
(* Session protocol: the pure parts *)

head_is_compatible_ignoring_distance(head, info) ==
    /\ head.date = info.date
    /\ head.duration = info.duration
    /\ head.no_laps = info.no_laps
    /\ head.no_track_points = info.no_track_points

head_is_compatible_to_track(head, info) ==
    /\ head.date = info.date
    /\ head.duration = info.duration
    /\ head.no_laps = info.no_laps
    /\ head.distance = info.distance
    /\ head.no_track_points = info.no_track_points

is_get_tracks_finish_message_any_0x8x(m) == m.command >= CMD_GET_TRACKS

is_get_tracks_finish_message(m) == m.command = CMD_FINISH

RECURSIVE pack_indices(_)
pack_indices(indices) ==
    IF indices = <<>> THEN <<>>
    ELSE pack_H_be(Head(indices)) \o pack_indices(Tail(indices))

pack_get_tracks_parameter_byte_count(indices) ==
    pack_H_be(2 * Len(indices)) \o pack_indices(indices)

\* struct.pack(">H%dH" % no_tracks, no_tracks, *memory_indices)
pack_get_tracks_parameter(indices) ==
    pack_H_be(Len(indices)) \o pack_indices(indices)

process_get_tracks_lap_info_msg(expected_track_info, m) ==
    LET r == unpack_lap_info_parameter(m.parameter)
    IN  IF r.exc # "none" THEN r
        ELSE IF ~head_is_compatible_to_track(r.val.head, expected_track_info)
        THEN Raise("SQ100MessageException")
        ELSE Ok(r.val.laps)

process_get_tracks_track_info_msg(m) ==
    unpack_track_info_parameter(m.parameter)

process_get_tracks_track_points_msg_no_start_check(expected_track_info, expected_session_start, m) ==
    LET r == unpack_track_point_parameter(m.parameter)
    IN  IF r.exc # "none" THEN r
        ELSE IF ~head_is_compatible_to_track(r.val.head, expected_track_info)
        THEN Raise("SQ100MessageException")
        ELSE IF r.val.session_indices[2] - r.val.session_indices[1] + 1
                    # Len(r.val.track_points)
        THEN Raise("SQ100MessageException")
        ELSE Ok(r.val.track_points)

process_get_tracks_track_points_msg_no_count_check(expected_track_info, expected_session_start, m) ==
    LET r == unpack_track_point_parameter(m.parameter)
    IN  IF r.exc # "none" THEN r
        ELSE IF ~head_is_compatible_to_track(r.val.head, expected_track_info)
        THEN Raise("SQ100MessageException")
        ELSE IF r.val.session_indices[1] # expected_session_start
        THEN Raise("SQ100MessageException")
        ELSE Ok(r.val.track_points)

process_get_tracks_track_points_msg(expected_track_info, expected_session_start, m) ==
    LET r == unpack_track_point_parameter(m.parameter)
    IN  IF r.exc # "none" THEN r
        ELSE IF ~head_is_compatible_to_track(r.val.head, expected_track_info)
        THEN Raise("SQ100MessageException")
        ELSE IF r.val.session_indices[1] # expected_session_start
        THEN Raise("SQ100MessageException")
        ELSE IF r.val.session_indices[2] - r.val.session_indices[1] + 1
                    # Len(r.val.track_points)
        THEN Raise("SQ100MessageException")
        ELSE Ok(r.val.track_points)

\* index = {t.id: t.memory_block_index for t in tracks}: a later entry with
\* the same id replaces an earlier one
index_of(entries, id) ==
    LET ks == {k \in DOMAIN entries : entries[k].id = id}
    IN  entries[CHOOSE k \in ks : \A j \in ks : j <= k].memory_block_index

RECURSIVE indices_in_catalog_order(_, _)
indices_in_catalog_order(entries, ids) ==
    IF entries = <<>> THEN <<>>
    ELSE (IF \E i \in DOMAIN ids : ids[i] = Head(entries).id
          THEN <<Head(entries).memory_block_index>> ELSE <<>>)
         \o indices_in_catalog_order(Tail(entries), ids)

track_ids_to_memory_indices_in_catalog_order(entries, ids) ==
    IF \E i \in DOMAIN ids :
           \A k \in DOMAIN entries : entries[k].id # ids[i]
    THEN Raise("KeyError")
    ELSE Ok(indices_in_catalog_order(entries, ids))

RECURSIVE present_indices(_, _)
present_indices(entries, ids) ==
    IF ids = <<>> THEN <<>>
    ELSE (IF \E k \in DOMAIN entries : entries[k].id = Head(ids)
          THEN <<index_of(entries, Head(ids))>> ELSE <<>>)
         \o present_indices(entries, Tail(ids))

track_ids_to_memory_indices_skipping_absent(entries, ids) ==
    Ok(present_indices(entries, ids))

track_ids_to_memory_indices(entries, ids) ==
    IF \E i \in DOMAIN ids :
           \A k \in DOMAIN entries : entries[k].id # ids[i]
    THEN Raise("KeyError")
    ELSE Ok([i \in DOMAIN ids |-> index_of(entries, ids[i])])

----------------------------------------------------------------------------
(* The device: the replies it may put on the wire *)

be16(n) == <<n \div 256, n % 256>>

be32(n) ==
    <<n \div 16777216, (n \div 65536) % 256, (n \div 256) % 256, n % 256>>

Zeros(n) == [i \in 1..n |-> 0]

RECURSIVE Concat(_)
Concat(parts) ==
    IF parts = <<>> THEN <<>> ELSE Head(parts) \o Concat(Tail(parts))

\* the 20 bytes every track header starts with: ">6B3IH"
make_trackhead_pack(h) ==
    h.date6 \o be32(h.no_track_points) \o be32(h.duration) \o be32(h.distance)
    \o be16(h.no_laps)

\* ">6B3I5HB": one record of the track list
make_track_list_entry_pack(h, memory_block_index, id) ==
    make_trackhead_pack(h) \o be16(0) \o be16(memory_block_index) \o be16(0)
    \o be16(id) \o <<0>>

\* ">6B3I5HB3H2B4H13s": header with msg_type 0x00 and the statistics block
make_track_info_pack(h, memory_block_index, id) ==
    make_trackhead_pack(h) \o be16(0) \o be16(memory_block_index) \o be16(0)
    \o be16(id) \o <<0>>
    \o be16(300) \o be16(0) \o be16(1234) \o <<180, 140>> \o be16(50)
    \o be16(40) \o be16(100) \o be16(150) \o Zeros(13)

\* ">6B3IH8sB"
make_lap_info_trackhead_pack(h, msg_type) ==
    make_trackhead_pack(h) \o Zeros(8) \o <<msg_type>>

\* ">3I3H2B2H13s2H"
make_lap_info_lap_pack(first_index, last_index) ==
    be32(36) \o be32(36) \o be32(500) \o be16(300) \o be16(0) \o be16(1234)
    \o <<180, 140>> \o be16(100) \o be16(150) \o Zeros(13)
    \o be16(first_index) \o be16(last_index)

\* ">6B3IH2IB"
make_track_point_trackhead_pack(h, first, last, msg_type) ==
    make_trackhead_pack(h) \o be32(first) \o be32(last) \o <<msg_type>>

\* ">2i3HB2H6s": point number k of a track
make_track_point_pack(k) ==
    be32(50000000 + k) \o be32(8000000 + k) \o be16(200 + k) \o be16(0)
    \o be16(1000) \o <<120>> \o be16(0) \o be16(10) \o Zeros(6)

\* ">BH%dsB": command, declared length, parameter, checksum
make_message_pack(command, parameter, payload_length, checksum) ==
    <<command>> \o be16(payload_length) \o parameter \o <<checksum>>

\* a well-formed reply
Reply(command, parameter) ==
    make_message_pack(command, parameter, Len(parameter),
                      XorOfAll(WithLengthBE(parameter)))

\* the track the device stores under id 1, and heads that differ from it in
\* one field each; H2 (one point less) is the track stored under id 2
H1 ==
    [date6 |-> <<21, 3, 14, 9, 30, 15>>, no_track_points |-> 2,
     duration |-> 36, distance |-> 500, no_laps |-> 1]
H2 == [H1 EXCEPT !.no_track_points = 1]
Hdate == [H1 EXCEPT !.date6 = <<21, 3, 15, 9, 30, 15>>]
Hduration == [H1 EXCEPT !.duration = 37]
Hdistance == [H1 EXCEPT !.distance = 501]
Hlaps == [H1 EXCEPT !.no_laps = 2]

OtherHeads == {Hdate, Hduration, Hdistance, Hlaps}

TrackListParameter ==
    make_track_list_entry_pack(H1, 10, 1) \o make_track_list_entry_pack(H2, 20, 2)

LapInfoParameter(h) ==
    make_lap_info_trackhead_pack(h, 170)
    \o make_lap_info_lap_pack(0, h.no_track_points - 1)

\* points first..last announced, points first..first+n-1 carried
TrackPointParameter(h, first, last, n) ==
    make_track_point_trackhead_pack(h, first, last, 85)
    \o Concat([k \in 1..n |-> make_track_point_pack(first + k - 1)])

ListReplies == {Reply(CMD_LIST, TrackListParameter)}

TrackInfoReplies ==
    {Reply(CMD_GET_TRACKS, make_track_info_pack(H1, 10, 1)),
     Reply(CMD_GET_TRACKS, make_track_info_pack(H2, 20, 2))}

\* one lap record under each head, and two lap records under H1, whose
\* no_laps is 1
LapInfoReplies ==
    {Reply(CMD_GET_TRACKS, LapInfoParameter(h)) : h \in {H1, H2} \cup OtherHeads}
    \cup {Reply(CMD_GET_TRACKS,
                LapInfoParameter(H1) \o make_lap_info_lap_pack(0, 1))}

TrackPointReplies ==
    {Reply(CMD_GET_TRACKS, TrackPointParameter(h, 0, 0, 1)) :
          h \in {H1, H2} \cup OtherHeads}
    \cup {Reply(CMD_GET_TRACKS, TrackPointParameter(H1, 1, 1, 1)),
          Reply(CMD_GET_TRACKS, TrackPointParameter(H1, 0, 1, 2)),
          Reply(CMD_GET_TRACKS, TrackPointParameter(H1, 0, 10, 2)),
          Reply(CMD_GET_TRACKS, TrackPointParameter(H1, 1, 0, 0)),
          Reply(CMD_GET_TRACKS, TrackPointParameter(H1, 0, 2, 3))}

\* the finish message: without a parameter, with a parameter of one byte, and
\* with a parameter as long as a track info
FinishReplies ==
    {Reply(CMD_FINISH, <<>>), Reply(CMD_FINISH, <<7>>),
     Reply(CMD_FINISH, make_track_info_pack(H2, 20, 2))}

\* replies that break the framing: a wrong checksum, a wrong declared
\* length, a reply cut short, and no reply at all
BrokenReplies ==
    {make_message_pack(CMD_LIST, TrackListParameter, Len(TrackListParameter),
                       xor(1, XorOfAll(WithLengthBE(TrackListParameter)))),
     make_message_pack(CMD_FINISH, <<7>>, 2, XorOfAll(WithLengthBE(<<7>>))),
     Take(Reply(CMD_GET_TRACKS, make_track_info_pack(H1, 10, 1)), 40),
     <<CMD_FINISH, 0>>,
     <<>>}

DeviceReplies ==
    ListReplies \cup TrackInfoReplies \cup LapInfoReplies
    \cup TrackPointReplies \cup FinishReplies \cup BrokenReplies

\* the requests of the caller
TrackIdChoices ==
    {<<>>, <<1>>, <<2>>, <<1, 2>>, <<2, 1>>, <<1, 1>>, <<3>>, <<1, 3>>}

----------------------------------------------------------------------------
(* Session protocol: query_track_list, query_tracks and query, one action   *)
(* per statement that talks to the transport or decodes a reply             *)

NoMessage ==
    [command |-> 0, payload_length |-> 0, parameter |-> <<>>, checksum |-> 0]

SessionIdle ==
    /\ entry = "none"
    /\ pc = "idle"
    /\ track_ids = <<>>
    /\ site = "none"
    /\ q_command = 0
    /\ q_parameter = <<>>
    /\ begin = <<>>
    /\ rest = <<>>
    /\ msg = NoMessage
    /\ track_list = <<>>
    /\ memory_indices = <<>>
    /\ no_done = 0
    /\ track_info = <<>>
    /\ laps = <<>>
    /\ track_points = <<>>
    /\ tracks = <<>>
    /\ exc = "none"
    /\ rx = <<>>
    /\ wire = <<>>
    /\ consumed = <<>>
    /\ unvalidated = FALSE

\* no call of SerialConnection.query is made
ConnectionIdle ==
    /\ sc_pc = "idle"
    /\ sc_command = <<>>
    /\ sc_attempt = 0
    /\ sc_data = <<>>
    /\ sc_result = Raise("none yet")
    /\ sc_log = <<>>

\* no call of cli.download_tracks is made
CliIdle ==
    /\ cli_pc = "idle"
    /\ cli_calls = 0
    /\ cli_latest = FALSE
    /\ cli_merge = FALSE
    /\ cli_arg = "default"
    /\ cli_default = <<>>
    /\ cli_list = <<>>
    /\ cli_given = <<>>
    /\ cli_catalog = <<>>
    /\ cli_events = <<>>
    /\ cli_tracks = <<>>
    /\ cli_files = {}
    /\ cli_outcome = "none"

HostIdle == ConnectionIdle /\ CliIdle

\* what the caller of query_tracks holds once the call is over: the returned
\* list, or an exception and no list
query_tracks_outcome ==
    IF pc = "done" THEN Ok(tracks)
    ELSE IF pc = "list_done" THEN Ok(track_list)
    ELSE IF pc = "raised" THEN Raise(exc)
    ELSE Raise("running")

query_locals == <<q_command, q_parameter, site>>
loop_locals == <<track_list, memory_indices, no_done, track_info, laps,
                 track_points, tracks>>

\* what the transport is asked to do: the bytes written, or the number of
\* bytes requested (size) and the bytes returned (data)
WriteEvent(data) == [op |-> "write", data |-> data, size |-> Len(data)]
ReadEvent(size, data) == [op |-> "read", data |-> data, size |-> size]

NoWrites == Cardinality({k \in DOMAIN wire : wire[k].op = "write"})

Raised_returns_partial(e) ==
    /\ pc' = "done"
    /\ exc' = e

\* an exception leaves query_tracks: nothing is returned
Raised(e) ==
    /\ pc' = "raised"
    /\ exc' = e

\* query_track_list: msg = query(connection=connection, command=0x78)
query_track_list_call ==
    /\ pc = "start"
    /\ q_command' = CMD_LIST
    /\ q_parameter' = <<>>
    /\ site' = "list"
    /\ pc' = "write"
    /\ UNCHANGED <<byteorder, codec_vars, host_vars, entry, track_ids, begin, rest, msg,
                   loop_locals, exc, rx, wire, consumed, unvalidated>>

\* query: connection.write(create_message(command, parameter)); the device
\* answers with any of its replies
connection_write ==
    /\ pc = "write"
    /\ NoWrites < MaxExchanges
    /\ wire' = Append(wire, WriteEvent(create_message(q_command, q_parameter)))
    /\ \E reply \in DeviceReplies : rx' = rx \o reply
    /\ pc' = "read_begin"
    /\ UNCHANGED <<byteorder, codec_vars, host_vars, entry, track_ids, query_locals, begin, rest,
                   msg, loop_locals, exc, consumed, unvalidated>>

\* SerialConnection.write: a write timeout raises SQ100SerialException
connection_write_timeout ==
    /\ pc = "write"
    /\ Raised("SQ100SerialException")
    /\ UNCHANGED <<byteorder, codec_vars, host_vars, entry, track_ids, query_locals, begin, rest,
                   msg, loop_locals, rx, wire, consumed, unvalidated>>

\* query: begin = connection.read(3); _, payload = struct.unpack(">BH", begin)
query_read_begin ==
    /\ pc = "read_begin"
    /\ begin' = Take(rx, 3)
    /\ rx' = Drop(rx, 3)
    /\ wire' = Append(wire, ReadEvent(3, begin'))
    /\ IF Len(begin') # 3
       THEN Raised("struct.error")
       ELSE pc' = "read_rest" /\ exc' = exc
    /\ UNCHANGED <<byteorder, codec_vars, host_vars, entry, track_ids, query_locals, rest, msg,
                   loop_locals, consumed, unvalidated>>

\* the number of bytes query asks for in its second read
rest_size_without_checksum(b) == U16(b, 1)

rest_size(b) == U16(b, 1) + 1

\* query: rest = connection.read(payload + 1)
query_read_rest ==
    /\ pc = "read_rest"
    /\ rest' = Take(rx, rest_size(begin))
    /\ rx' = Drop(rx, rest_size(begin))
    /\ wire' = Append(wire, ReadEvent(rest_size(begin), rest'))
    /\ unvalidated' = TRUE
    /\ pc' = "unpack"
    /\ UNCHANGED <<byteorder, codec_vars, host_vars, entry, track_ids, query_locals, begin, msg,
                   loop_locals, exc, consumed>>

\* where query_tracks goes on when the query of a call site has returned
after_query_lap_deferred(s) ==
    CASE s = "list" -> "track_list"
      [] s = "bulk" -> "loop"
      [] s = "lap" -> "points_loop"
      [] s = "points" -> "points"
      [] s = "next" -> "loop"

after_query(s) ==
    CASE s = "list" -> "track_list"
      [] s = "bulk" -> "loop"
      [] s = "lap" -> "lap_info"
      [] s = "points" -> "points"
      [] s = "next" -> "loop"

\* query: return unpack_message(begin + rest)
query_unpack_message ==
    /\ pc = "unpack"
    /\ LET r == unpack_message(begin \o rest)
       IN  IF r.exc # "none"
           THEN Raised(r.exc) /\ msg' = msg
           ELSE msg' = r.val /\ pc' = after_query(site) /\ exc' = exc
    /\ UNCHANGED <<byteorder, codec_vars, host_vars, entry, track_ids, query_locals, begin, rest,
                   loop_locals, rx, wire, consumed, unvalidated>>

\* a reply handed to a decoder: which decoder, whether it accepted the reply,
\* and the points the current track has (have) and announced (want) afterwards
Consumed(kind, ok, have, want) ==
    Append(consumed, [kind |-> kind, ok |-> ok, have |-> have, want |-> want])

after_track_list_always_requests(e) == "request"

\* query_track_list returns the entries: to its caller query_tracks, which
\* goes on with the request, or to the caller of the list operation
after_track_list(e) ==
    IF e \in {"query_track_list", "get_track_list"} THEN "list_done"
    ELSE "request"

\* query_track_list: tracks = unpack_track_list_parameter(msg.parameter)
unpack_track_list_step ==
    /\ pc = "track_list"
    /\ LET r == unpack_track_list_parameter(msg.parameter)
       IN  /\ consumed' = Consumed("track_list", r.exc = "none", 0, 0)
           /\ IF r.exc # "none"
              THEN Raised(r.exc) /\ UNCHANGED <<track_list, unvalidated>>
              ELSE /\ track_list' = r.val
                   /\ unvalidated' = FALSE
                   /\ pc' = after_track_list(entry)
                   /\ exc' = exc
    /\ UNCHANGED <<byteorder, codec_vars, host_vars, entry, track_ids, query_locals, begin, rest,
                   msg, memory_indices, no_done, track_info, laps,
                   track_points, tracks, rx, wire>>

\* query_tracks: memory_indices = track_ids_to_memory_indices(...);
\* params = pack_get_tracks_parameter(memory_indices);
\* msg = query(connection, command=0x80, parameter=params)
query_tracks_request ==
    /\ pc = "request"
    /\ LET r == track_ids_to_memory_indices(track_list, track_ids)
       IN  IF r.exc # "none"
           THEN Raised(r.exc) /\ UNCHANGED <<memory_indices, query_locals>>
           ELSE /\ memory_indices' = r.val
                /\ q_command' = CMD_GET_TRACKS
                /\ q_parameter' = pack_get_tracks_parameter(r.val)
                /\ site' = "bulk"
                /\ pc' = "write"
                /\ exc' = exc
    /\ UNCHANGED <<byteorder, codec_vars, host_vars, entry, track_ids, begin, rest, msg,
                   track_list, no_done, track_info, laps, track_points, tracks,
                   rx, wire, consumed, unvalidated>>

\* query_tracks, loop body: track_info = process_get_tracks_track_info_msg(msg)
\* and then the call query(connection, command=0x81) for the lap info
track_info_step ==
    /\ pc = "loop"
    /\ no_done < Len(track_ids)
    /\ LET r == process_get_tracks_track_info_msg(msg)
       IN  /\ consumed' = Consumed("track_info", r.exc = "none", 0,
                                   IF r.exc = "none"
                                   THEN r.val.no_track_points ELSE 0)
           /\ IF r.exc # "none"
              THEN Raised(r.exc)
                   /\ UNCHANGED <<track_info, query_locals, unvalidated>>
              ELSE /\ track_info' = r.val
                   /\ unvalidated' = FALSE
                   /\ q_command' = CMD_NEXT
                   /\ q_parameter' = <<>>
                   /\ site' = "lap"
                   /\ pc' = "write"
                   /\ exc' = exc
    /\ UNCHANGED <<byteorder, codec_vars, host_vars, entry, track_ids, begin, rest, msg,
                   track_list, memory_indices, no_done, laps, track_points,
                   tracks, rx, wire>>

\* query_tracks, after the loop: the last reply must be the finish message
finish_check ==
    /\ pc = "loop"
    /\ no_done = Len(track_ids)
    /\ IF ~is_get_tracks_finish_message(msg)
       THEN /\ Raised("SQ100MessageException")
            /\ consumed' = Consumed("finish", FALSE, 0, 0)
            /\ UNCHANGED unvalidated
       ELSE /\ pc' = "done"
            /\ consumed' = Consumed("finish", TRUE, 0, 0)
            /\ unvalidated' = FALSE
            /\ exc' = exc
    /\ UNCHANGED <<byteorder, codec_vars, host_vars, entry, track_ids, query_locals, begin, rest,
                   msg, loop_locals, rx, wire>>

\* laps = process_get_tracks_lap_info_msg(track_info, msg); track_points = []
lap_info_step ==
    /\ pc = "lap_info"
    /\ LET r == process_get_tracks_lap_info_msg(track_info, msg)
       IN  /\ consumed' = Consumed("lap_info", r.exc = "none", 0,
                                   track_info.no_track_points)
           /\ IF r.exc # "none"
              THEN Raised(r.exc) /\ UNCHANGED <<laps, track_points, unvalidated>>
              ELSE /\ laps' = r.val
                   /\ track_points' = <<>>
                   /\ unvalidated' = FALSE
                   /\ pc' = "points_loop"
                   /\ exc' = exc
    /\ UNCHANGED <<byteorder, codec_vars, host_vars, entry, track_ids, query_locals, begin, rest,
                   msg, track_list, memory_indices, no_done, track_info, tracks,
                   rx, wire>>

points_request_off_by_one ==
    /\ pc = "points_loop"
    /\ Len(track_points) <= track_info.no_track_points
    /\ q_command' = CMD_NEXT
    /\ q_parameter' = <<>>
    /\ site' = "points"
    /\ pc' = "write"
    /\ UNCHANGED <<byteorder, codec_vars, host_vars, entry, track_ids, begin, rest, msg,
                   loop_locals, exc, rx, wire, consumed, unvalidated>>

\* while len(track_points) < track_info.no_track_points: query(connection, 0x81)
points_request ==
    /\ pc = "points_loop"
    /\ Len(track_points) < track_info.no_track_points
    /\ q_command' = CMD_NEXT
    /\ q_parameter' = <<>>
    /\ site' = "points"
    /\ pc' = "write"
    /\ UNCHANGED <<byteorder, codec_vars, host_vars, entry, track_ids, begin, rest, msg,
                   loop_locals, exc, rx, wire, consumed, unvalidated>>

\* track_points += process_get_tracks_track_points_msg(track_info,
\*                                        len(track_points), msg)
points_step ==
    /\ pc = "points"
    /\ LET r == process_get_tracks_track_points_msg(
                    track_info, Len(track_points), msg)
       IN  /\ consumed' = Consumed("track_points", r.exc = "none",
                                   IF r.exc = "none"
                                   THEN Len(track_points) + Len(r.val)
                                   ELSE Len(track_points),
                                   track_info.no_track_points)
           /\ IF r.exc # "none"
              THEN Raised(r.exc) /\ UNCHANGED <<track_points, unvalidated>>
              ELSE /\ track_points' = track_points \o r.val
                   /\ unvalidated' = FALSE
                   /\ pc' = "points_loop"
                   /\ exc' = exc
    /\ UNCHANGED <<byteorder, codec_vars, host_vars, entry, track_ids, query_locals, begin, rest,
                   msg, track_list, memory_indices, no_done, track_info, laps,
                   tracks, rx, wire>>

track_append_requests_again ==
    /\ pc = "points_loop"
    /\ ~(Len(track_points) < track_info.no_track_points)
    /\ tracks' = Append(tracks, [info |-> track_info, laps |-> laps,
                                 track_points |-> track_points])
    /\ no_done' = no_done + 1
    /\ q_command' = CMD_GET_TRACKS
    /\ q_parameter' = <<>>
    /\ site' = "next"
    /\ pc' = "write"
    /\ UNCHANGED <<byteorder, codec_vars, host_vars, entry, track_ids, begin, rest, msg,
                   track_list, memory_indices, track_info, laps, track_points,
                   exc, rx, wire, consumed, unvalidated>>

\* tracks.append(Track(info, laps, track_points)); msg = query(connection, 0x81)
track_append ==
    /\ pc = "points_loop"
    /\ ~(Len(track_points) < track_info.no_track_points)
    /\ tracks' = Append(tracks, [info |-> track_info, laps |-> laps,
                                 track_points |-> track_points])
    /\ no_done' = no_done + 1
    /\ q_command' = CMD_NEXT
    /\ q_parameter' = <<>>
    /\ site' = "next"
    /\ pc' = "write"
    /\ UNCHANGED <<byteorder, codec_vars, host_vars, entry, track_ids, begin, rest, msg,
                   track_list, memory_indices, track_info, laps, track_points,
                   exc, rx, wire, consumed, unvalidated>>

\* get_tracks / get_track_list: with SerialConnection(config) as connection.
\* SerialConnection defines neither __enter__ nor __exit__ (and __init__ takes
\* the config as its baudrate), so the statement raises before the body runs:
\* ValueError from the baudrate setter, or AttributeError / TypeError from the
\* with statement, depending on the serial library and the interpreter.
with_SerialConnection ==
    /\ pc = "with"
    /\ \E e \in {"ValueError", "AttributeError", "TypeError"} : Raised(e)
    /\ UNCHANGED <<byteorder, codec_vars, host_vars, entry, track_ids, query_locals,
                   begin, rest, msg, loop_locals, rx, wire, consumed,
                   unvalidated>>

\* the calls a caller makes: the two operations on an open connection, and
\* the two that take a SerialConfig
Entries == {"query_tracks", "query_track_list", "get_tracks", "get_track_list"}

Init ==
    /\ byteorder \in {"little", "big"}
    /\ CodecIdle
    /\ HostIdle
    /\ entry \in Entries
    /\ pc = (IF entry \in {"get_tracks", "get_track_list"}
             THEN "with" ELSE "start")
    /\ track_ids \in (IF entry \in {"query_tracks", "get_tracks"}
                       THEN TrackIdChoices ELSE {<<>>})
    /\ site = "none"
    /\ q_command = 0
    /\ q_parameter = <<>>
    /\ begin = <<>>
    /\ rest = <<>>
    /\ msg = NoMessage
    /\ track_list = <<>>
    /\ memory_indices = <<>>
    /\ no_done = 0
    /\ track_info = <<>>
    /\ laps = <<>>
    /\ track_points = <<>>
    /\ tracks = <<>>
    /\ exc = "none"
    /\ rx = <<>>
    /\ wire = <<>>
    /\ consumed = <<>>
    /\ unvalidated = FALSE

Next ==
    \/ with_SerialConnection
    \/ query_track_list_call
    \/ connection_write
    \/ connection_write_timeout
    \/ query_read_begin
    \/ query_read_rest
    \/ query_unpack_message
    \/ unpack_track_list_step
    \/ query_tracks_request
    \/ track_info_step
    \/ finish_check
    \/ lap_info_step
    \/ points_request
    \/ points_step
    \/ track_append

Spec == Init /\ [][Next]_vars

----------------------------------------------------------------------------
(* Runs of the request helpers and of the tagged decoders on one input *)

\* a TrackListEntry as unpack_track_list_parameter builds it
make_track_list_entry(id, memory_block_index) ==
    TrackListEntry_of(make_track_list_entry_pack(H1, memory_block_index, id))

\* catalogs: ids in order, out of order, a single entry, none, and one id
\* held by two entries
Catalogs ==
    {<<make_track_list_entry(1, 10), make_track_list_entry(2, 20),
       make_track_list_entry(3, 30), make_track_list_entry(4, 40)>>,
     <<make_track_list_entry(4, 40), make_track_list_entry(2, 20),
       make_track_list_entry(1, 10)>>,
     <<make_track_list_entry(2, 7)>>,
     <<>>,
     <<make_track_list_entry(1, 10), make_track_list_entry(3, 30),
       make_track_list_entry(1, 40)>>}

TrackIds == 1..4

IndexValues == {10, 22, 50, 256, 65535}

\* a parameter with its msg_type byte (offset 28) set to tag
WithTag(parameter, tag) == [parameter EXCEPT ![29] = tag]

\* a header whose date is no date
Hnodate == [H1 EXCEPT !.date6 = <<21, 13, 14, 9, 30, 15>>]

Tags == {0, 170, 85, 1, 255}

\* parameters shaped as a track-info, a lap-info, a track-points message, a
\* bare header and a header with an invalid date, under every tag
TaggedParameters ==
    {WithTag(parameter, tag) :
        parameter \in {make_track_info_pack(H1, 10, 1),
                       LapInfoParameter(H1),
                       TrackPointParameter(H1, 0, 0, 1),
                       make_lap_info_trackhead_pack(H1, 0),
                       make_lap_info_trackhead_pack(Hnodate, 0)},
        tag \in Tags}

RequestInit ==
    /\ byteorder \in {"little", "big"}
    /\ h_command = 0
    /\ h_parameter = <<>>
    /\ h_checksum = 0
    /\ h_result = Raise("none yet")
    /\ h_encoded = <<>>
    /\ h_astr = <<>>
    /\ \/ /\ h_pc = "lookup"
          /\ h_path = "lookup"
          /\ h_entries \in Catalogs
          /\ h_ids \in SeqsUpTo(TrackIds, MaxRequestLen)
          /\ h_indices = <<>>
          /\ h_raw = <<>>
       \/ /\ h_pc = "pack"
          /\ h_path = "pack"
          /\ h_entries = <<>>
          /\ h_ids = <<>>
          /\ h_indices \in SeqsUpTo(IndexValues, MaxRequestLen)
          /\ h_raw = <<>>
       \/ /\ h_pc = "decode"
          /\ h_path = "decode"
          /\ h_entries = <<>>
          /\ h_ids = <<>>
          /\ h_indices = <<>>
          /\ h_raw \in TaggedParameters

TrackIdsToMemoryIndices ==
    /\ h_pc = "lookup"
    /\ h_result' = track_ids_to_memory_indices(h_entries, h_ids)
    /\ h_pc' = "looked_up"
    /\ UNCHANGED <<byteorder, h_path, h_command, h_parameter, h_checksum, h_raw,
                   request_args, session_vars, host_vars>>

PackGetTracksParameter ==
    /\ h_pc = "pack"
    /\ h_result' = Ok(pack_get_tracks_parameter(h_indices))
    /\ h_pc' = "packed"
    /\ UNCHANGED <<byteorder, h_path, h_command, h_parameter, h_checksum, h_raw,
                   request_args, session_vars, host_vars>>

\* each of the three tagged decoders applied to the same parameter
UnpackTagged ==
    /\ h_pc = "decode"
    /\ h_result' = [track_info |-> unpack_track_info_parameter(h_raw),
                    lap_info |-> unpack_lap_info_parameter(h_raw),
                    track_points |-> unpack_track_point_parameter(h_raw)]
    /\ h_pc' = "decoded"
    /\ UNCHANGED <<byteorder, h_path, h_command, h_parameter, h_checksum, h_raw,
                   request_args, session_vars, host_vars>>

----------------------------------------------------------------------------
(* Runs of the record decoders on parameters the device encoded *)

\* a head whose fields need all their bytes
Hbig ==
    [date6 |-> <<99, 12, 31, 23, 59, 59>>, no_track_points |-> 70000,
     duration |-> 20000007, distance |-> 1000000, no_laps |-> 300]

ListRecords ==
    {[h |-> H1, memory_block_index |-> 14, id |-> 15],
     [h |-> H2, memory_block_index |-> 24, id |-> 25],
     [h |-> Hbig, memory_block_index |-> 258, id |-> 65535]}

\* the track-list parameter of a list of records
make_track_list_parameter(records) ==
    Concat([k \in DOMAIN records |->
               make_track_list_entry_pack(records[k].h,
                                          records[k].memory_block_index,
                                          records[k].id)])

\* ">3I3H2B2H13s2H": one lap record with every field given
make_lap_pack(l) ==
    be32(l.duration) \o be32(l.total_time) \o be32(l.distance)
    \o be16(l.calories) \o be16(0) \o be16(l.max_speed)
    \o <<l.max_heart_rate, l.avg_heart_rate>>
    \o be16(l.min_height) \o be16(l.max_height) \o Zeros(13)
    \o be16(l.first_index) \o be16(l.last_index)

LapValues ==
    {[duration |-> 36, total_time |-> 72, distance |-> 500, calories |-> 300,
      max_speed |-> 1234, max_heart_rate |-> 180, avg_heart_rate |-> 140,
      min_height |-> 100, max_height |-> 150, first_index |-> 0,
      last_index |-> 1],
     [duration |-> 70001, total_time |-> 20000007, distance |-> 1000000,
      calories |-> 65535, max_speed |-> 256, max_heart_rate |-> 255,
      avg_heart_rate |-> 1, min_height |-> 65535, max_height |-> 258,
      first_index |-> 256, last_index |-> 65535]}

\* a lap-info parameter: the header and one record per lap, each record cut
\* to record_size bytes
make_lap_info_parameter(e) ==
    make_lap_info_trackhead_pack(e.head, 170)
    \o Concat([k \in DOMAIN e.laps |->
                  Take(make_lap_pack(e.laps[k]), e.record_size)])

\* parameters with records of 41 bytes, as the device sends them, and of 37
LapInfoInputs ==
    [head : {H1, Hbig}, laps : SeqsUpTo(LapValues, MaxRecords),
     record_size : {37, 41}]

\* a signed field "i" in two's complement
be32_signed(n) ==
    <<(n \div 16777216) % 256, (n \div 65536) % 256, (n \div 256) % 256,
      n % 256>>

\* ">2i3HB2H6s": one point record with every field given, latitude and
\* longitude in units of 10^-6 degrees, speed in units of 10^-2
make_point_pack(p) ==
    be32_signed(p.latitude) \o be32_signed(p.longitude) \o be16(p.altitude)
    \o be16(0) \o be16(p.speed) \o <<p.heart_rate>> \o be16(0)
    \o be16(p.interval) \o Zeros(6)

PointValues ==
    {[latitude |-> 50123456, longitude |-> 8123456, altitude |-> 200,
      speed |-> 1000, heart_rate |-> 120, interval |-> 10],
     [latitude |-> -33868820, longitude |-> -151209290, altitude |-> 65535,
      speed |-> 256, heart_rate |-> 255, interval |-> 65535]}

\* a track-points parameter: the header and one record per point, each
\* record cut to record_size bytes
make_track_point_parameter(e) ==
    make_track_point_trackhead_pack(e.head, e.first, e.last, 85)
    \o Concat([k \in DOMAIN e.points |->
                  Take(make_point_pack(e.points[k]), e.record_size)])

\* parameters with records of 25 bytes, as the device sends them, and of 23
TrackPointInputs ==
    [head : {H1, Hbig}, first : {0, 70000}, last : {1, 16777217},
     points : SeqsUpTo(PointValues, MaxRecords), record_size : {23, 25}]

\* ">3H2B4H13s": the statistics block of a track-info parameter
make_track_data_pack(d) ==
    be16(d.calories) \o be16(0) \o be16(d.max_speed)
    \o <<d.max_heart_rate, d.avg_heart_rate>>
    \o be16(d.ascending_height) \o be16(d.descending_height)
    \o be16(d.min_height) \o be16(d.max_height) \o Zeros(13)

TrackDataValues ==
    {[calories |-> 300, max_speed |-> 1234, max_heart_rate |-> 180,
      avg_heart_rate |-> 140, ascending_height |-> 50,
      descending_height |-> 40, min_height |-> 100, max_height |-> 150],
     [calories |-> 65535, max_speed |-> 256, max_heart_rate |-> 1,
      avg_heart_rate |-> 255, ascending_height |-> 258,
      descending_height |-> 65535, min_height |-> 513, max_height |-> 1027]}

\* parameter cut to size bytes, or filled up to size bytes with zeros
Resized(parameter, size) ==
    [k \in 1..size |-> IF k <= Len(parameter) THEN parameter[k] ELSE 0]

\* a track-info parameter: the header tagged 0x00 and a statistics block of
\* block_size bytes
make_track_info_parameter(e) ==
    make_track_list_entry_pack(e.head, e.memory_block_index, e.id)
    \o Resized(make_track_data_pack(e.data), e.block_size)

\* parameters with a statistics block of 29 bytes, as the device sends it,
\* of one byte less and of one byte more
TrackInfoInputs ==
    [head : {H1, Hbig}, memory_block_index : {10, 258}, id : {1, 65535},
     data : TrackDataValues, block_size : {28, 29, 30}]

DecoderInit ==
    /\ byteorder \in {"little", "big"}
    /\ h_command = 0
    /\ h_parameter = <<>>
    /\ h_checksum = 0
    /\ h_result = Raise("none yet")
    /\ h_entries = <<>>
    /\ h_ids = <<>>
    /\ h_indices = <<>>
    /\ h_astr = <<>>
    /\ \/ /\ h_pc = "list"
          /\ h_path = "list"
          /\ h_encoded \in SeqsUpTo(ListRecords, MaxRecords)
          /\ h_raw = make_track_list_parameter(h_encoded)
       \/ /\ h_pc = "lap"
          /\ h_path = "lap"
          /\ h_encoded \in LapInfoInputs
          /\ h_raw = make_lap_info_parameter(h_encoded)
       \/ /\ h_pc = "points"
          /\ h_path = "points"
          /\ h_encoded \in TrackPointInputs
          /\ h_raw = make_track_point_parameter(h_encoded)
       \/ /\ h_pc = "info"
          /\ h_path = "info"
          /\ h_encoded \in TrackInfoInputs
          /\ h_raw = make_track_info_parameter(h_encoded)

UnpackTrackList ==
    /\ h_pc = "list"
    /\ h_result' = unpack_track_list_parameter(h_raw)
    /\ h_pc' = "list_decoded"
    /\ UNCHANGED <<byteorder, h_path, h_command, h_parameter, h_checksum, h_raw,
                   request_args, session_vars, host_vars>>

UnpackLapInfo ==
    /\ h_pc = "lap"
    /\ h_result' = unpack_lap_info_parameter(h_raw)
    /\ h_pc' = "lap_decoded"
    /\ UNCHANGED <<byteorder, h_path, h_command, h_parameter, h_checksum, h_raw,
                   request_args, session_vars, host_vars>>

UnpackTrackPoint ==
    /\ h_pc = "points"
    /\ h_result' = unpack_track_point_parameter(h_raw)
    /\ h_pc' = "points_decoded"
    /\ UNCHANGED <<byteorder, h_path, h_command, h_parameter, h_checksum, h_raw,
                   request_args, session_vars, host_vars>>

UnpackTrackInfo ==
    /\ h_pc = "info"
    /\ h_result' = unpack_track_info_parameter(h_raw)
    /\ h_pc' = "info_decoded"
    /\ UNCHANGED <<byteorder, h_path, h_command, h_parameter, h_checksum, h_raw,
                   request_args, session_vars, host_vars>>

DecoderNext ==
    \/ UnpackTrackInfo
    \/ UnpackTrackList
    \/ UnpackLapInfo
    \/ UnpackTrackPoint

----------------------------------------------------------------------------
(* Command line: parse_range.  A str is a sequence of one-character strings *)

Digits == <<"0", "1", "2", "3", "4", "5", "6", "7", "8", "9">>

IsDigit(c) == \E d \in DOMAIN Digits : Digits[d] = c

DigitValue(c) == (CHOOSE d \in DOMAIN Digits : Digits[d] = c) - 1

\* str.split(sep): the pieces between the separators, at least one piece
RECURSIVE split(_, _)
split(str, sep) ==
    IF \A k \in DOMAIN str : str[k] # sep THEN <<str>>
    ELSE LET i == CHOOSE k \in DOMAIN str :
                      str[k] = sep /\ \A j \in 1..(k - 1) : str[j] # sep
         IN  <<SubSeq(str, 1, i - 1)>>
             \o split(SubSeq(str, i + 1, Len(str)), sep)

RECURSIVE digits_value(_)
digits_value(str) ==
    IF str = <<>> THEN 0
    ELSE 10 * digits_value(SubSeq(str, 1, Len(str) - 1))
         + DigitValue(str[Len(str)])

\* int(str) of a string of digits, commas and minus signs already split
\* away: ValueError for the empty string and for anything but digits
int(str) ==
    IF str = <<>> \/ \E k \in DOMAIN str : ~IsDigit(str[k])
    THEN Raise("ValueError")
    ELSE Ok(digits_value(str))

\* sorted(result) of a set of integers
RECURSIVE sorted(_)
sorted(S) ==
    IF S = {} THEN <<>>
    ELSE LET least == CHOOSE x \in S : \A y \in S : x <= y
         IN  <<least>> \o sorted(S \ {least})

\* range(int(x[0]), int(x[-1])) of one part
part_range_exclusive(part) ==
    LET x == split(part, "-")
    IN  int(x[1]).val..(int(x[Len(x)]).val - 1)

\* range(int(x[0]), int(x[-1]) + 1) of one part
part_range(part) ==
    LET x == split(part, "-")
    IN  int(x[1]).val..int(x[Len(x)]).val

part_raises(part) ==
    LET x == split(part, "-")
    IN  int(x[1]).exc # "none" \/ int(x[Len(x)]).exc # "none"

parse_range(astr) ==
    LET parts == split(astr, ",")
    IN  IF \E k \in DOMAIN parts : part_raises(parts[k])
        THEN Raise("ValueError")
        ELSE Ok(sorted(UNION {part_range(parts[k]) : k \in DOMAIN parts}))

\* str(n) of a natural number
RECURSIVE str(_)
str(n) ==
    IF n < 10 THEN <<Digits[n + 1]>> ELSE str(n \div 10) \o <<Digits[(n % 10) + 1]>>

\* a part as the user writes it: one id, or first-last
part_text(p) ==
    IF p.range THEN str(p.lo) \o <<"-">> \o str(p.hi) ELSE str(p.lo)

RECURSIVE join(_)
join(parts) ==
    IF Len(parts) = 1 THEN part_text(parts[1])
    ELSE part_text(parts[1]) \o <<",">> \o join(Tail(parts))

Id(n) == [lo |-> n, hi |-> n, range |-> FALSE]
Range(a, b) == [lo |-> a, hi |-> b, range |-> TRUE]

PartChoices == {Id(2), Id(8), Id(13), Range(5, 7), Range(2, 5), Range(7, 13)}

\* every list of one to MaxParts parts, and the list 2,5-7,8,13
PartLists ==
    (SeqsUpTo(PartChoices, MaxParts) \ {<<>>})
    \cup {<<Id(2), Range(5, 7), Id(8), Id(13)>>}

ParseInit ==
    /\ byteorder \in {"little", "big"}
    /\ h_command = 0
    /\ h_parameter = <<>>
    /\ h_checksum = 0
    /\ h_raw = <<>>
    /\ h_result = Raise("none yet")
    /\ h_entries = <<>>
    /\ h_ids = <<>>
    /\ h_indices = <<>>
    /\ h_pc = "parse"
    /\ h_path = "parse"
    /\ h_encoded \in PartLists
    /\ h_astr = join(h_encoded)

ParseRange ==
    /\ h_pc = "parse"
    /\ h_result' = parse_range(h_astr)
    /\ h_pc' = "parsed"
    /\ UNCHANGED <<byteorder, h_path, h_command, h_parameter, h_checksum, h_raw,
                   request_args, session_vars, host_vars>>

CodecStart ==
    /\ CodecInit \/ RequestInit \/ DecoderInit \/ ParseInit
    /\ SessionIdle
    /\ HostIdle

PureNext ==
    \/ CodecNext
    \/ TrackIdsToMemoryIndices
    \/ PackGetTracksParameter
    \/ UnpackTagged
    \/ DecoderNext
    \/ ParseRange

CodecSpec == CodecStart /\ [][PureNext]_vars

----------------------------------------------------------------------------
(* SerialConnection.query of sq100/serial_connection.py: one call against   *)
(* a serial port that returns any data, or none, to each read               *)

\* for attempt in range(3)
attempts == 3

\* def read(self, size: int = 3000)
read_size == 3000

data_is_not_None(data) == TRUE

\* if data: a bytes object is true when it is not empty
data_is_true(data) == Len(data) # 0

\* the commands handed to query
QueryCommands ==
    {create_message(CMD_LIST, <<>>), create_message(CMD_NEXT, <<>>),
     create_message(CMD_GET_TRACKS, pack_get_tracks_parameter(<<10>>)),
     <<0>>, <<>>}

\* what the serial port holds when it is read: nothing, a zero byte, the
\* start of a reply, and whole replies
SerialData ==
    {<<>>, <<0>>, <<CMD_FINISH, 0>>, Reply(CMD_FINISH, <<>>),
     Reply(CMD_FINISH, <<7>>), Reply(CMD_LIST, TrackListParameter)}

ConnectionInit ==
    /\ sc_pc = "write"
    /\ sc_command \in QueryCommands
    /\ sc_attempt = 0
    /\ sc_data = <<>>
    /\ sc_result = Raise("none yet")
    /\ sc_log = <<>>

\* query: self.write(command), and serial.write succeeds
SerialConnection_write ==
    /\ sc_pc = "write"
    /\ sc_log' = Append(sc_log, WriteEvent(sc_command))
    /\ sc_pc' = "read"
    /\ UNCHANGED <<byteorder, codec_vars, session_vars, cli_vars,
                   sc_command, sc_attempt, sc_data, sc_result>>

\* query: self.write(command), and serial.write times out: write raises
\* SQ100SerialException, which leaves query
SerialConnection_write_timeout ==
    /\ sc_pc = "write"
    /\ sc_log' = Append(sc_log, [op |-> "write_timeout", data |-> sc_command,
                                 size |-> Len(sc_command)])
    /\ sc_result' = Raise("SQ100SerialException")
    /\ sc_pc' = "raised"
    /\ UNCHANGED <<byteorder, codec_vars, session_vars, cli_vars,
                   sc_command, sc_attempt, sc_data>>

\* query: data = self.read(); if data: return data; and the next turn of
\* the loop, or raise SQ100SerialException("query failed") after the last
SerialConnection_read ==
    /\ sc_pc = "read"
    /\ \E d \in SerialData :
           /\ sc_data' = Take(d, read_size)
           /\ sc_log' = Append(sc_log, ReadEvent(read_size, sc_data'))
    /\ IF data_is_true(sc_data')
       THEN /\ sc_result' = Ok(sc_data')
            /\ sc_pc' = "returned"
            /\ UNCHANGED sc_attempt
       ELSE IF sc_attempt + 1 < attempts
       THEN /\ sc_attempt' = sc_attempt + 1
            /\ sc_pc' = "write"
            /\ UNCHANGED sc_result
       ELSE /\ sc_result' = Raise("SQ100SerialException")
            /\ sc_pc' = "raised"
            /\ UNCHANGED sc_attempt
    /\ UNCHANGED <<byteorder, codec_vars, session_vars, cli_vars, sc_command>>

ConnectionStart ==
    /\ byteorder \in {"little", "big"}
    /\ CodecIdle
    /\ SessionIdle
    /\ CliIdle
    /\ ConnectionInit

ConnectionNext ==
    \/ SerialConnection_write
    \/ SerialConnection_write_timeout
    \/ SerialConnection_read

ConnectionSpec == ConnectionStart /\ [][ConnectionNext]_vars

----------------------------------------------------------------------------
(* download_tracks and get_latest_track_id of sq100/cli.py: calls one after *)
(* the other in one process.  arival_sq100.get_track_list and               *)
(* arival_sq100.get_tracks are the calls out of the module: each returns    *)
(* what the device holds, or raises.                                        *)

\* Optional[int]
None == [some |-> FALSE, value |-> 0]
Some(v) == [some |-> TRUE, value |-> v]

\* datetime < datetime
date_less(a, b) ==
    LET x == <<a.year, a.month, a.day, a.hour, a.minute, a.second>>
        y == <<b.year, b.month, b.day, b.hour, b.minute, b.second>>
    IN  \E k \in 1..6 : /\ x[k] < y[k]
                         /\ \A j \in 1..(k - 1) : x[j] = y[j]

\* an entry put behind the entries of a sorted list that are not later
insert_by_date(entries, e) ==
    LET n == Cardinality({k \in DOMAIN entries :
                             ~date_less(e.date, entries[k].date)})
    IN  SubSeq(entries, 1, n) \o <<e>> \o SubSeq(entries, n + 1, Len(entries))

\* sorted(track_headers, key=lambda t: t.date): ascending and stable
RECURSIVE sorted_by_date(_)
sorted_by_date(entries) ==
    IF entries = <<>> THEN <<>>
    ELSE insert_by_date(sorted_by_date(SubSeq(entries, 1, Len(entries) - 1)),
                        entries[Len(entries)])

get_latest_track_id_earliest(track_headers) ==
    IF Len(track_headers) = 0 THEN None
    ELSE Some(sorted_by_date(track_headers)[1].id)

\* get_latest_track_id, given what get_track_list returned
get_latest_track_id(track_headers) ==
    IF Len(track_headers) = 0 THEN None
    ELSE Some(sorted_by_date(track_headers)[Len(track_headers)].id)

nothing_to_download_never(ids) == FALSE

\* if len(track_ids) == 0: return
nothing_to_download(ids) == Len(ids) = 0

\* the exceptions that leave get_track_list and get_tracks
CallErrors == {"SQ100SerialException", "SQ100MessageException", "AttributeError"}

\* get_track_list(serial_config): the list of the device, or an exception
get_track_list_outcomes(catalog) ==
    {Ok(catalog)} \cup {Raise(e) : e \in CallErrors}

\* get_tracks(config, track_ids): one Track per requested id, or an exception
get_tracks_outcomes(catalog, ids) ==
    (IF \A i \in DOMAIN ids : \E k \in DOMAIN catalog : catalog[k].id = ids[i]
     THEN {Ok([i \in DOMAIN ids |-> [info |-> [id |-> ids[i]]]])}
     ELSE {Raise("KeyError")})
    \cup {Raise(e) : e \in CallErrors}

\* the calls download_tracks makes into arival_sq100
CallEvent(op, ids) == [op |-> op, track_ids |-> ids]

\* the list object track_ids is bound to
bound_list == IF cli_arg = "supplied" THEN cli_list ELSE cli_default

\* "downloaded_tracks.gpx" and "downloaded_tracks-%s.gpx" % track.info.id
merged_filename == <<"downloaded_tracks.gpx">>
track_filename(track) == <<"downloaded_tracks-", track.info.id, ".gpx">>

\* track lists of the device: none, one entry, the entry of the latest date
\* in the middle, first, and two entries of one date
make_dated_entry(h, id) ==
    TrackListEntry_of(make_track_list_entry_pack(h, 10 * id, id))

Hold == [H1 EXCEPT !.date6 = <<20, 12, 31, 23, 59, 59>>]

CliCatalogs ==
    {<<>>,
     <<make_dated_entry(H1, 8)>>,
     <<make_dated_entry(H1, 1), make_dated_entry(Hdate, 3),
       make_dated_entry(Hold, 8)>>,
     <<make_dated_entry(Hdate, 8), make_dated_entry(H1, 1),
       make_dated_entry(Hold, 3)>>,
     <<make_dated_entry(H1, 1), make_dated_entry(H1, 3)>>}

\* the lists a caller supplies as track_ids
TrackIdArguments == {<<>>, <<1>>, <<1, 3>>}

\* the process has started: no call yet, the default list as the def
\* statement made it (track_ids: List[int] = []), no file written
CliInit == CliIdle

\* download_tracks(serial_config, track_ids, merge, latest) is called, with
\* a list of the caller or without track_ids
download_tracks_call ==
    /\ cli_pc = "idle"
    /\ cli_calls < MaxCalls
    /\ cli_calls' = cli_calls + 1
    /\ cli_latest' \in BOOLEAN
    /\ cli_merge' \in BOOLEAN
    /\ cli_catalog' \in CliCatalogs
    /\ \/ /\ cli_arg' = "supplied"
          /\ cli_list' \in TrackIdArguments
          /\ cli_given' = cli_list'
       \/ /\ cli_arg' = "default"
          /\ cli_list' = <<>>
          /\ cli_given' = cli_default
    /\ cli_events' = <<>>
    /\ cli_tracks' = <<>>
    /\ cli_outcome' = "running"
    /\ cli_pc' = "if_latest"
    /\ UNCHANGED <<byteorder, codec_vars, session_vars, connection_vars,
                   cli_default, cli_files>>

\* if latest: latest_track_id = get_latest_track_id(serial_config);
\* if latest_track_id is not None: track_ids.append(latest_track_id)
download_tracks_latest ==
    /\ cli_pc = "if_latest"
    /\ IF ~cli_latest
       THEN /\ cli_pc' = "if_empty"
            /\ UNCHANGED <<cli_events, cli_default, cli_list, cli_outcome>>
       ELSE /\ cli_events' = Append(cli_events, CallEvent("get_track_list", <<>>))
            /\ \E r \in get_track_list_outcomes(cli_catalog) :
                   IF r.exc # "none"
                   THEN /\ cli_outcome' = r.exc
                        /\ cli_pc' = "idle"
                        /\ UNCHANGED <<cli_default, cli_list>>
                   ELSE LET latest_track_id == get_latest_track_id(r.val)
                        IN  /\ cli_pc' = "if_empty"
                            /\ cli_outcome' = cli_outcome
                            /\ IF latest_track_id = None
                               THEN UNCHANGED <<cli_default, cli_list>>
                               ELSE IF cli_arg = "supplied"
                               THEN /\ cli_list' = Append(cli_list,
                                                          latest_track_id.value)
                                    /\ UNCHANGED cli_default
                               ELSE /\ cli_default' = Append(cli_default,
                                                             latest_track_id.value)
                                    /\ UNCHANGED cli_list
    /\ UNCHANGED <<byteorder, codec_vars, session_vars, connection_vars,
                   cli_calls, cli_latest, cli_merge, cli_arg, cli_given,
                   cli_catalog, cli_tracks, cli_files>>

\* if len(track_ids) == 0: return
\* tracks = arival_sq100.get_tracks(config=serial_config, track_ids=track_ids)
download_tracks_get_tracks ==
    /\ cli_pc = "if_empty"
    /\ IF nothing_to_download(bound_list)
       THEN /\ cli_outcome' = "returned"
            /\ cli_pc' = "idle"
            /\ UNCHANGED <<cli_events, cli_tracks>>
       ELSE /\ cli_events' = Append(cli_events, CallEvent("get_tracks", bound_list))
            /\ \E r \in get_tracks_outcomes(cli_catalog, bound_list) :
                   IF r.exc # "none"
                   THEN /\ cli_outcome' = r.exc
                        /\ cli_pc' = "idle"
                        /\ UNCHANGED cli_tracks
                   ELSE /\ cli_tracks' = r.val
                        /\ cli_pc' = "store"
                        /\ cli_outcome' = cli_outcome
    /\ UNCHANGED <<byteorder, codec_vars, session_vars, connection_vars,
                   cli_calls, cli_latest, cli_merge, cli_arg, cli_default,
                   cli_list, cli_given, cli_catalog, cli_files>>

\* if merge: one file of all tracks; else: one file per track
download_tracks_store ==
    /\ cli_pc = "store"
    /\ cli_files' = cli_files \cup
                        (IF cli_merge THEN {merged_filename}
                         ELSE {track_filename(cli_tracks[k]) :
                                   k \in DOMAIN cli_tracks})
    /\ cli_outcome' = "returned"
    /\ cli_pc' = "idle"
    /\ UNCHANGED <<byteorder, codec_vars, session_vars, connection_vars,
                   cli_calls, cli_latest, cli_merge, cli_arg, cli_default,
                   cli_list, cli_given, cli_catalog, cli_events, cli_tracks>>

CliStart ==
    /\ byteorder \in {"little", "big"}
    /\ CodecIdle
    /\ SessionIdle
    /\ ConnectionIdle
    /\ CliInit

CliNext ==
    \/ download_tracks_call
    \/ download_tracks_latest
    \/ download_tracks_get_tracks
    \/ download_tracks_store

CliSpec == CliStart /\ [][CliNext]_vars

----------------------------------------------------------------------------
(* What the claims expect of the codec, stated without the code's fold *)

RoundTripDone == h_pc = "unpacked" /\ h_path = "outbound"

\* C1 as stated: unpack_message(create_message(cmd, p)) succeeds and returns
\* a Message whose command is cmd and whose parameter is p.
C1_RoundTripAsStated ==
    RoundTripDone =>
        /\ h_result.exc = "none"
        /\ h_result.val.command = h_command
        /\ h_result.val.parameter = h_parameter

\* C1 amended: unpack_message(create_message(cmd, p)) succeeds and returns a
\* Message whose command is the start byte 0x02, whose payload_length is
\* 1 + len(p) and whose parameter is the byte cmd followed by p.
C1_RoundTrip ==
    RoundTripDone =>
        /\ h_result.exc = "none"
        /\ h_result.val.command = 2
        /\ h_result.val.payload_length = 1 + Len(h_parameter)
        /\ h_result.val.parameter = <<h_command>> \o h_parameter

C1_Witness ==
    /\ RoundTripDone
    /\ h_result.exc = "none"
    /\ Len(h_parameter) > 0
    /\ h_command # 2

\* C2: create_message returns [0x02, len_hi, len_lo, command, parameter...,
\* checksum] with len = 1 + len(parameter) big-endian and checksum the
\* checksum of [command] ++ parameter; the 0x02 is not part of the checksum.
C2_CreateMessageLayout ==
    (h_path = "outbound" /\ h_pc \in {"created", "unpacked"}) =>
        LET len == 1 + Len(h_parameter)
            payload == <<h_command>> \o h_parameter
        IN  h_raw = <<2, len \div 256, len % 256>> \o payload
                    \o <<XorOfAll(WithLengthBE(payload))>>

C2_Witness ==
    /\ h_path = "outbound"
    /\ h_pc = "created"
    /\ Len(h_parameter) >= 255
    /\ h_parameter[1] # 0

\* C3: calc_checksum(payload) is the exclusive-or of the two big-endian
\* length bytes of the payload and of every byte of the payload, a value in
\* 0..255, whatever the host's byte order.
C3_ChecksumIsXorFold ==
    (h_path = "outbound" /\ h_pc # "input") =>
        /\ h_checksum = XorOfAll(WithLengthBE(h_parameter))
        /\ h_checksum \in 0..255

C3_Witness ==
    /\ h_pc = "summed"
    /\ byteorder = "little"
    /\ Len(h_parameter) = 513
    /\ h_parameter[1] # 0

\* the fields of an inbound byte string of at least 4 bytes
DeclaredLength(raw) == 256 * raw[2] + raw[3]
ParameterOf(raw) == SubSeq(raw, 4, Len(raw) - 1)
TrailingByte(raw) == raw[Len(raw)]

\* C4: unpack_message raises SQ100MessageException, and returns no Message,
\* whenever the declared payload length differs from the actual parameter
\* length and whenever the trailing checksum byte differs from the checksum
\* recomputed over the parameter.
C4_UnpackRejects ==
    (/\ h_pc = "unpacked"
     /\ Len(h_raw) >= 4
     /\ \/ DeclaredLength(h_raw) # Len(ParameterOf(h_raw))
        \/ TrailingByte(h_raw) # XorOfAll(WithLengthBE(ParameterOf(h_raw))))
    => h_result = Raise("SQ100MessageException")

C4_Witness ==
    /\ h_pc = "unpacked"
    /\ Len(h_raw) >= 5
    /\ DeclaredLength(h_raw) = Len(ParameterOf(h_raw))
    /\ TrailingByte(h_raw) # XorOfAll(WithLengthBE(ParameterOf(h_raw)))
    /\ h_result = Raise("SQ100MessageException")

\* C5: every Message returned by unpack_message has payload_length ==
\* len(parameter) and checksum == xor-fold of the two length bytes of the
\* parameter followed by the bytes of the parameter.
C5_MessageInvariant ==
    (h_pc = "unpacked" /\ h_result.exc = "none") =>
        /\ h_result.val.payload_length = Len(h_result.val.parameter)
        /\ h_result.val.checksum
               = XorOfAll(WithLengthBE(h_result.val.parameter))

C5_Witness ==
    /\ h_pc = "unpacked"
    /\ h_path = "inbound"
    /\ h_result.exc = "none"
    /\ Len(h_result.val.parameter) = 2
    /\ h_result.val.checksum # 0

----------------------------------------------------------------------------
(* The session claims *)

Writes == SelectSeq(wire, LAMBDA e : e.op = "write")

LastEvent == wire[Len(wire)]

\* the step writes to the transport
IsWrite == Len(wire') = Len(wire) + 1 /\ wire'[Len(wire')].op = "write"

\* every exchange so far is a write, a read of 3 bytes that returned 3 bytes,
\* and one more read that returned all the bytes it asked for
ExchangesComplete ==
    /\ Len(wire) % 3 = 0
    /\ \A k \in 1..(Len(wire) \div 3) :
           /\ wire[3 * k - 2].op = "write"
           /\ wire[3 * k - 1].op = "read"
           /\ wire[3 * k - 1].size = 3
           /\ Len(wire[3 * k - 1].data) = 3
           /\ wire[3 * k].op = "read"
           /\ Len(wire[3 * k].data) = wire[3 * k].size

\* C6: the transport sees strictly alternating request/response: a write
\* happens only when every earlier write was followed by the complete read
\* of one reply, and only when the reply read last has been fully validated.
C6_Alternation == [][IsWrite => (ExchangesComplete /\ ~unvalidated)]_vars

C6_Witness ==
    /\ Len(Writes) >= 4
    /\ LastEvent.op = "write"
    /\ consumed # <<>>
    /\ consumed[Len(consumed)].kind = "track_points"

\* the query has returned its Message to query_tracks
QueryReturned == pc \in {"track_list", "loop", "lap_info", "points"}

\* the big-endian u16 in bytes 2-3 of a first read
PayloadLengthOf(first) == 256 * first[2] + first[3]

\* C7: query writes create_message(command, parameter) once, then asks for
\* exactly 3 bytes, then for exactly payload_length + 1 bytes, payload_length
\* being the big-endian u16 in bytes 2-3 of the first read, and returns
\* unpack_message of the two reads concatenated; it asks for nothing else.
C7_TwoPhaseRead ==
    /\ \A k \in DOMAIN wire :
           /\ (wire[k].op = "write" /\ k < Len(wire)) =>
                  (wire[k + 1].op = "read" /\ wire[k + 1].size = 3)
           /\ (wire[k].op = "read" /\ wire[k].size = 3 /\ k < Len(wire)
                   /\ wire[k - 1].op = "write") =>
                  /\ Len(wire[k].data) = 3
                  /\ wire[k + 1].op = "read"
                  /\ wire[k + 1].size = PayloadLengthOf(wire[k].data) + 1
           /\ (wire[k].op = "read" /\ k < Len(wire)
                   /\ wire[k - 1].op = "read") =>
                  wire[k + 1].op = "write"
           /\ k = 1 => wire[k].op = "write"
    /\ QueryReturned =>
           /\ Len(wire) >= 3
           /\ wire[Len(wire) - 2]
                  = WriteEvent(<<2>> \o WithLengthBE(<<q_command>> \o q_parameter)
                               \o <<XorOfAll(WithLengthBE(<<q_command>>
                                                          \o q_parameter))>>)
           /\ wire[Len(wire) - 1].op = "read"
           /\ wire[Len(wire)].op = "read"
           /\ Ok(msg) = unpack_message(wire[Len(wire) - 1].data
                                       \o wire[Len(wire)].data)

C7_Witness ==
    /\ pc = "points"
    /\ Len(msg.parameter) > 29
    /\ wire[Len(wire)].size = Len(msg.parameter) + 1
    /\ Len(Writes) >= 4

EmptyRequest(command) == <<2, 0, 1, command, XorOfAll(<<0, 1, command>>)>>

\* C8: the commands written are first 0x78 with empty parameter, then, only
\* after the list reply was accepted, one 0x80, and after that only 0x81
\* with empty parameter; a finished download has written the 0x80.
C8_CommandOrder ==
    /\ \A k \in DOMAIN Writes :
           /\ k = 1 => Writes[k].data = EmptyRequest(120)
           /\ k = 2 => /\ Writes[k].data[4] = 128
                       /\ consumed # <<>>
                       /\ consumed[1].kind = "track_list"
                       /\ consumed[1].ok
           /\ k >= 3 => Writes[k].data = EmptyRequest(129)
    /\ pc = "done" => Len(Writes) >= 2

C8_Witness ==
    /\ Len(Writes) >= 5
    /\ pc = "done"

\* the number of tracks whose track-info was accepted among the first k
\* consumed replies
InfosUpTo(k) ==
    Cardinality({j \in 1..k : consumed[j].kind = "track_info" /\ consumed[j].ok})

\* C9: per requested track the replies are consumed in the order track-info,
\* one lap-info, track-points messages until the track's points are complete,
\* then one reply that is the next track's track-info or, after the last
\* requested track, the finish message; a points message is decoded only
\* after that track's lap-info was accepted.
C9_ReplyOrder ==
    \A k \in DOMAIN consumed :
        LET e == consumed[k]
        IN  /\ k = 1 => e.kind = "track_list"
            /\ k > 1 =>
                   LET d == consumed[k - 1]
                   IN  /\ d.ok
                       /\ d.kind # "finish"
                       /\ d.kind = "track_info" => e.kind = "lap_info"
                       /\ (d.kind \in {"lap_info", "track_points"}
                               /\ d.have < d.want) => e.kind = "track_points"
                       /\ (d.kind = "track_list"
                               \/ (d.kind \in {"lap_info", "track_points"}
                                       /\ d.have >= d.want)) =>
                              e.kind = (IF InfosUpTo(k - 1) < Len(track_ids)
                                        THEN "track_info" ELSE "finish")

C9_Witness ==
    /\ pc = "done"
    /\ Len(tracks) = 2
    /\ \E k \in DOMAIN consumed :
           /\ k + 1 \in DOMAIN consumed
           /\ consumed[k].kind = "track_points"
           /\ consumed[k + 1].kind = "track_points"

\* the TrackHead a decoder found in the reply on hand
LapInfoHead == unpack_lap_info_parameter(msg.parameter)
TrackPointHead == unpack_track_point_parameter(msg.parameter)

SameFiveFields(head) ==
    /\ head.date = track_info.date
    /\ head.duration = track_info.duration
    /\ head.no_laps = track_info.no_laps
    /\ head.distance = track_info.distance
    /\ head.no_track_points = track_info.no_track_points

\* C10: a lap-info or track-points message is accepted only if its TrackHead
\* equals the track's TrackInfo in date, duration, no_laps, distance and
\* no_track_points; a decoded message that differs in any of the five fields
\* ends the download with SQ100MessageException.
C10_HeadCompatible ==
    [][/\ (pc = "lap_info" /\ pc' = "points_loop") =>
              (LapInfoHead.exc = "none" /\ SameFiveFields(LapInfoHead.val.head))
       /\ (pc = "points" /\ pc' = "points_loop") =>
              (TrackPointHead.exc = "none"
                   /\ SameFiveFields(TrackPointHead.val.head))
       /\ (pc = "lap_info" /\ LapInfoHead.exc = "none"
               /\ ~SameFiveFields(LapInfoHead.val.head)) =>
              (pc' = "raised" /\ exc' = "SQ100MessageException")
       /\ (pc = "points" /\ TrackPointHead.exc = "none"
               /\ ~SameFiveFields(TrackPointHead.val.head)) =>
              (pc' = "raised" /\ exc' = "SQ100MessageException")]_vars

C10_Witness ==
    /\ pc = "raised"
    /\ exc = "SQ100MessageException"
    /\ consumed # <<>>
    /\ consumed[Len(consumed)].kind = "track_points"
    /\ TrackPointHead.exc = "none"
    /\ TrackPointHead.val.head.distance # track_info.distance
    /\ TrackPointHead.val.head.date = track_info.date
    /\ TrackPointHead.val.head.duration = track_info.duration
    /\ TrackPointHead.val.head.no_laps = track_info.no_laps
    /\ TrackPointHead.val.head.no_track_points = track_info.no_track_points

\* the session indices and the number of 25-byte point records of the
\* track-points reply on hand, read from its bytes
FirstSessionIndex == U32(msg.parameter, 20)
LastSessionIndex == U32(msg.parameter, 24)
PointRecords == (Len(msg.parameter) - 29) \div 25

\* C11: a track-points message is accepted only if its first session index
\* equals the number of points accumulated for the current track; a decoded
\* message with another first index ends the download with
\* SQ100MessageException and leaves the accumulated points as they were.
C11_SessionStart ==
    [][/\ (pc = "points" /\ pc' = "points_loop") =>
              (TrackPointHead.exc = "none"
                   /\ FirstSessionIndex = Len(track_points))
       /\ (pc = "points" /\ TrackPointHead.exc = "none"
               /\ FirstSessionIndex # Len(track_points)) =>
              /\ pc' = "raised"
              /\ exc' = "SQ100MessageException"
              /\ track_points' = track_points
              /\ tracks' = tracks]_vars

\* a repeated message: its head fits, one point is held, it starts at 0 again
C11_Witness ==
    /\ pc = "raised"
    /\ exc = "SQ100MessageException"
    /\ consumed # <<>>
    /\ consumed[Len(consumed)].kind = "track_points"
    /\ TrackPointHead.exc = "none"
    /\ SameFiveFields(TrackPointHead.val.head)
    /\ Len(track_points) = 1
    /\ FirstSessionIndex = 0

\* C12: a decoded track-points message whose index range
\* last_session_index - first_session_index + 1 differs from the number of
\* point records it carries ends the download with SQ100MessageException, and
\* an accepted message carries exactly that many records.
C12_SessionLength ==
    [][/\ (pc = "points" /\ pc' = "points_loop") =>
              /\ LastSessionIndex - FirstSessionIndex + 1 = PointRecords
              /\ Len(track_points') = Len(track_points) + PointRecords
       /\ (pc = "points" /\ TrackPointHead.exc = "none"
               /\ LastSessionIndex - FirstSessionIndex + 1 # PointRecords) =>
              /\ pc' = "raised"
              /\ exc' = "SQ100MessageException"
              /\ track_points' = track_points]_vars

\* indices 0..10 with 2 points, everything else in order
C12_Witness ==
    /\ pc = "raised"
    /\ exc = "SQ100MessageException"
    /\ consumed # <<>>
    /\ consumed[Len(consumed)].kind = "track_points"
    /\ TrackPointHead.exc = "none"
    /\ SameFiveFields(TrackPointHead.val.head)
    /\ FirstSessionIndex = Len(track_points)
    /\ FirstSessionIndex = 0
    /\ LastSessionIndex = 10
    /\ PointRecords = 2

\* C13: every Track a download returns holds exactly as many points as its
\* TrackInfo announces: len(track_points) = info.no_track_points.
C13_TrackComplete ==
    pc = "done" =>
        \A k \in DOMAIN tracks :
            Len(tracks[k].track_points) = tracks[k].info.no_track_points

\* the finish check is reached: the points of the last requested track are
\* complete (or no track was requested) and the next reply is on hand
AtFinishCheck == pc = "loop" /\ no_done = Len(track_ids)

\* C14: after the last requested track the download returns only if the
\* reply on hand has command 0x8a; with any other command it ends with
\* SQ100MessageException, and nothing but the command decides.
C14_FinishMessage ==
    [][/\ AtFinishCheck =>
              /\ msg.command = 138 => pc' = "done"
              /\ msg.command # 138 =>
                     (pc' = "raised" /\ exc' = "SQ100MessageException")
       /\ (pc # "done" /\ pc' = "done") => (AtFinishCheck /\ msg.command = 138)]_vars

\* both tracks were assembled and the reply that follows is not 0x8a
C14_Witness ==
    /\ pc = "raised"
    /\ exc = "SQ100MessageException"
    /\ consumed # <<>>
    /\ consumed[Len(consumed)].kind = "finish"
    /\ Len(track_ids) = 2
    /\ Len(tracks) = 2
    /\ msg.command = 128

\* C15: a download that returns hands back the tracks in request order: the
\* i-th Track has info.id = track_ids[i] and info.memory_block_index equal to
\* the i-th index sent in the 0x80 request.
C15_RequestOrder ==
    pc = "done" =>
        \A i \in DOMAIN tracks :
            /\ i \in DOMAIN track_ids
            /\ tracks[i].info.id = track_ids[i]
            /\ tracks[i].info.memory_block_index = memory_indices[i]

\* C16: a download is all-or-nothing: a call that returns hands back exactly
\* len(track_ids) tracks and has raised nothing; once an exchange has failed
\* the call has raised, stays raised, and the caller holds no Track.
C16_AllOrNothing ==
    [][/\ (pc' = "done") =>
              /\ exc' = "none"
              /\ query_tracks_outcome'.exc = "none"
              /\ Len(query_tracks_outcome'.val) = Len(track_ids)
       /\ (exc' # "none") =>
              /\ pc' = "raised"
              /\ query_tracks_outcome'.val = <<>>
       /\ (pc = "raised") => (pc' = "raised" /\ exc' = exc)]_vars

\* the second track's points fail after the first track was assembled
C16_Witness ==
    /\ pc = "raised"
    /\ Len(track_ids) = 2
    /\ Len(tracks) = 1
    /\ consumed # <<>>
    /\ consumed[Len(consumed)].kind = "track_points"
    /\ query_tracks_outcome.val = <<>>

\* a requested id that the accepted track list does not hold
AbsentIdRequested ==
    /\ consumed # <<>>
    /\ consumed[1].ok
    /\ \E i \in DOMAIN track_ids :
           \A k \in DOMAIN track_list : track_list[k].id # track_ids[i]

\* C17: a download that asks for an id absent from the device's track list
\* fails with a dedicated not-found error (NotFoundError or
\* UnknownTrackIdError), not with a generic lookup failure.
C17_UnknownTrackId ==
    (pc = "raised" /\ AbsentIdRequested) =>
        exc \in {"NotFoundError", "UnknownTrackIdError"}

\* every requested id is held by the catalog
AllPresent ==
    \A i \in DOMAIN h_ids : \E k \in DOMAIN h_entries : h_entries[k].id = h_ids[i]

\* C18: for a request of present ids track_ids_to_memory_indices returns a
\* list as long as track_ids whose i-th element is the memory_block_index of
\* the catalog entry with id track_ids[i], in request order, neither sorted
\* nor deduplicated (where two entries share the id, of one of them).
C18_MemoryIndices ==
    (h_pc = "looked_up" /\ AllPresent) =>
        /\ h_result.exc = "none"
        /\ Len(h_result.val) = Len(h_ids)
        /\ \A i \in DOMAIN h_ids :
               /\ \E k \in DOMAIN h_entries :
                      /\ h_entries[k].id = h_ids[i]
                      /\ h_result.val[i] = h_entries[k].memory_block_index
               /\ \A k \in DOMAIN h_entries :
                      (/\ h_entries[k].id = h_ids[i]
                       /\ \A j \in DOMAIN h_entries :
                              h_entries[j].id = h_ids[i] => j = k) =>
                          h_result.val[i] = h_entries[k].memory_block_index

\* catalog {1:10, 2:20, 3:30, 4:40}, request [3, 1, 2]
C18_Witness ==
    /\ h_pc = "looked_up"
    /\ Len(h_entries) = 4
    /\ h_ids = <<3, 1, 2>>
    /\ h_result = Ok(<<30, 10, 20>>)

\* C19: the parameter of the 0x80 request is the big-endian u16 count of the
\* indices followed by each index as a big-endian u16, in request order; it
\* is 2 + 2 * count bytes long.
C19_GetTracksParameter ==
    h_pc = "packed" =>
        /\ h_result.exc = "none"
        /\ Len(h_result.val) = 2 + 2 * Len(h_indices)
        /\ \A k \in DOMAIN h_result.val : h_result.val[k] \in 0..255
        /\ 256 * h_result.val[1] + h_result.val[2] = Len(h_indices)
        /\ \A i \in DOMAIN h_indices :
               256 * h_result.val[2 * i + 1] + h_result.val[2 * i + 2]
                   = h_indices[i]

\* [10, 22, 50] -> 00 03 00 0A 00 16 00 32
C19_Witness ==
    /\ h_pc = "packed"
    /\ h_indices = <<10, 22, 50>>
    /\ h_result.val = <<0, 3, 0, 10, 0, 22, 0, 50>>

\* the msg_type byte of the parameter handed to the decoders
TagOf(parameter) == parameter[29]

\* C20: a parameter that carries a msg_type other than a decoder's tag
\* (track-info 0x00, lap-info 0xAA, track-points 0x55) makes that decoder
\* raise SQ100MessageException and return nothing; no parameter is accepted
\* by two decoders, and an accepted one carries the decoder's tag.
C20_TagMismatch ==
    (h_pc = "decoded" /\ Len(h_raw) >= 29) =>
        /\ TagOf(h_raw) # 0 =>
               h_result.track_info = Raise("SQ100MessageException")
        /\ TagOf(h_raw) # 170 =>
               h_result.lap_info = Raise("SQ100MessageException")
        /\ TagOf(h_raw) # 85 =>
               h_result.track_points = Raise("SQ100MessageException")
        /\ h_result.track_info.exc = "none" => TagOf(h_raw) = 0
        /\ h_result.lap_info.exc = "none" => TagOf(h_raw) = 170
        /\ h_result.track_points.exc = "none" => TagOf(h_raw) = 85
        /\ Cardinality({d \in {"track_info", "lap_info", "track_points"} :
                            h_result[d].exc = "none"}) <= 1

\* a well-formed lap-info body under the track-points tag
C20_Witness ==
    /\ h_pc = "decoded"
    /\ Len(h_raw) = 70
    /\ TagOf(h_raw) = 85
    /\ h_result.lap_info = Raise("SQ100MessageException")
    /\ h_result.track_info = Raise("SQ100MessageException")

\* the call is over: it has returned or raised
CallOver == pc \in {"done", "list_done", "raised"}

OpenEvents == {k \in DOMAIN wire : wire[k].op = "open"}
CloseEvents == {k \in DOMAIN wire : wire[k].op = "close"}

\* C21: a call of get_tracks or get_track_list opens the serial connection
\* before its first exchange and has closed it exactly once when the call is
\* over, however it ends; nothing is written or read after the close.
C21_ScopedConnection ==
    (entry \in {"get_tracks", "get_track_list"} /\ CallOver) =>
        /\ Cardinality(OpenEvents) = 1
        /\ Cardinality(CloseEvents) = 1
        /\ wire[1].op = "open"
        /\ wire[Len(wire)].op = "close"

\* the reads that returned fewer bytes than they were asked for
ShortReads ==
    {k \in DOMAIN wire : wire[k].op = "read" /\ Len(wire[k].data) < wire[k].size}

\* C22: a read that returns fewer bytes than requested, in either phase of
\* the two-phase read, ends the call with the transport error
\* SQ100SerialException; its bytes are never handed on as a message.
C22_ShortRead ==
    ShortReads # {} =>
        /\ pc \in {"unpack", "raised"}
        /\ pc = "raised" => exc = "SQ100SerialException"

\* C23: the list operation is one exchange: it writes command 0x78 with an
\* empty parameter once and nothing else, reads one reply in two reads, and
\* returns the entries decoded from the parameter of that reply.
C23_ListExchange ==
    entry = "query_track_list" =>
        /\ Len(Writes) <= 1
        /\ \A k \in DOMAIN Writes : Writes[k].data = EmptyRequest(120)
        /\ Len(wire) <= 3
        /\ pc = "list_done" =>
               /\ Len(wire) = 3
               /\ wire[1].op = "write"
               /\ wire[2].op = "read"
               /\ wire[3].op = "read"
               /\ unpack_message(wire[2].data \o wire[3].data).exc = "none"
               /\ query_tracks_outcome
                      = unpack_track_list_parameter(
                            unpack_message(wire[2].data
                                           \o wire[3].data).val.parameter)

C23_Witness ==
    /\ entry = "query_track_list"
    /\ pc = "list_done"
    /\ Len(query_tracks_outcome.val) = 2
    /\ query_tracks_outcome.val[2].id = 2

\* C29: every Track a download returns carries as many laps as its TrackInfo
\* announces: len(laps) = info.no_laps.
C29_LapsComplete ==
    pc = "done" =>
        \A k \in DOMAIN tracks : Len(tracks[k].laps) = tracks[k].info.no_laps

\* the date a decoder is to return for the six date bytes of a head
DateOf(date6) ==
    [year |-> 2000 + date6[1], month |-> date6[2], day |-> date6[3],
     hour |-> date6[4], minute |-> date6[5], second |-> date6[6]]

\* the timedelta d is n / 10 seconds
IsDeciseconds(d, n) ==
    /\ d.seconds \in 0..86399
    /\ d.microseconds \in {100000 * t : t \in 0..9}
    /\ 10 * (86400 * d.days + d.seconds) + d.microseconds \div 100000 = n

\* C24: the track-list decoder returns one TrackListEntry per 29-byte record
\* of the parameter, in encoded order, with date, no_track_points, duration
\* (deciseconds / 10), distance, no_laps, memory_block_index and id equal to
\* the encoded values; an empty parameter yields an empty list.
C24_TrackListDecoder ==
    h_pc = "list_decoded" =>
        /\ h_result.exc = "none"
        /\ Len(h_raw) = 29 * Len(h_result.val)
        /\ Len(h_result.val) = Len(h_encoded)
        /\ h_raw = <<>> => h_result.val = <<>>
        /\ \A k \in DOMAIN h_encoded :
               /\ h_result.val[k].date = DateOf(h_encoded[k].h.date6)
               /\ h_result.val[k].no_track_points
                      = h_encoded[k].h.no_track_points
               /\ IsDeciseconds(h_result.val[k].duration,
                                 h_encoded[k].h.duration)
               /\ h_result.val[k].distance = h_encoded[k].h.distance
               /\ h_result.val[k].no_laps = h_encoded[k].h.no_laps
               /\ h_result.val[k].memory_block_index
                      = h_encoded[k].memory_block_index
               /\ h_result.val[k].id = h_encoded[k].id

\* the records (id 15, index 14) and (id 25, index 24)
C24_Witness ==
    /\ h_pc = "list_decoded"
    /\ Len(h_result.val) = 2
    /\ h_result.val[1].id = 15
    /\ h_result.val[1].memory_block_index = 14
    /\ h_result.val[2].id = 25
    /\ h_result.val[2].memory_block_index = 24

\* the TrackHead a decoder returned is the head the device encoded
HeadAsEncoded(head, h) ==
    /\ head.date = DateOf(h.date6)
    /\ head.no_track_points = h.no_track_points
    /\ IsDeciseconds(head.duration, h.duration)
    /\ head.distance = h.distance
    /\ head.no_laps = h.no_laps

\* the lap-info decoder returned the encoded head and one Lap per encoded lap
LapCountAsEncoded ==
    /\ h_result.exc = "none"
    /\ HeadAsEncoded(h_result.val.head, h_encoded.head)
    /\ Len(h_result.val.laps) = Len(h_encoded.laps)

\* every field of every Lap is the encoded value
LapFieldsAsEncoded ==
    \A k \in DOMAIN h_encoded.laps :
        LET lap == h_result.val.laps[k]
            l == h_encoded.laps[k]
        IN  /\ IsDeciseconds(lap.duration, l.duration)
            /\ IsDeciseconds(lap.total_time, l.total_time)
            /\ lap.distance = l.distance
            /\ lap.calories = l.calories
            /\ lap.max_speed = l.max_speed
            /\ lap.max_heart_rate = l.max_heart_rate
            /\ lap.avg_heart_rate = l.avg_heart_rate
            /\ lap.min_height = l.min_height
            /\ lap.max_height = l.max_height
            /\ lap.first_index = l.first_index
            /\ lap.last_index = l.last_index

\* C25 as stated: given a header tagged 0xAA followed by n lap records of 37
\* bytes each, the lap-info decoder returns the header's TrackHead and exactly
\* n Laps.
C25_LapRecordsOf37Bytes ==
    (h_pc = "lap_decoded" /\ h_encoded.record_size = 37) => LapCountAsEncoded

\* C25, amended: given a header tagged 0xAA followed by n lap records of 41
\* bytes each, the lap-info decoder returns the header's TrackHead and exactly
\* n Laps in encoded order with every field preserved (durations as
\* deciseconds / 10).
C25_LapInfoDecoder ==
    (h_pc = "lap_decoded" /\ h_encoded.record_size = 41) =>
        /\ Len(h_raw) = 29 + 41 * Len(h_encoded.laps)
        /\ LapCountAsEncoded
        /\ LapFieldsAsEncoded

C25_Witness ==
    /\ h_pc = "lap_decoded"
    /\ h_encoded.record_size = 41
    /\ h_encoded.head = Hbig
    /\ Len(h_result.val.laps) = 2
    /\ h_result.val.laps[1].distance = 1000000
    /\ h_result.val.laps[2].distance = 500

\* the track-point decoder returned the encoded head, the encoded pair of
\* session indices and one TrackPoint per encoded point
PointCountAsEncoded ==
    /\ h_result.exc = "none"
    /\ HeadAsEncoded(h_result.val.head, h_encoded.head)
    /\ h_result.val.session_indices = <<h_encoded.first, h_encoded.last>>
    /\ Len(h_result.val.track_points) = Len(h_encoded.points)

\* the k-th TrackPoint is the k-th encoded point: latitude and longitude
\* with six decimal places, speed with two, interval as deciseconds / 10
PointFieldsAsEncoded ==
    \A k \in DOMAIN h_encoded.points :
        LET point == h_result.val.track_points[k]
            p == h_encoded.points[k]
        IN  /\ point.latitude = [scaled |-> p.latitude, places |-> 6]
            /\ point.longitude = [scaled |-> p.longitude, places |-> 6]
            /\ point.altitude = p.altitude
            /\ point.speed = [scaled |-> p.speed, places |-> 2]
            /\ point.heart_rate = p.heart_rate
            /\ IsDeciseconds(point.interval, p.interval)

\* C26 as stated: given a header tagged 0x55 followed by n point records of
\* 23 bytes each, the track-point decoder returns the header's TrackHead, the
\* pair (first_session_index, last_session_index) and exactly n TrackPoints.
C26_PointRecordsOf23Bytes ==
    (h_pc = "points_decoded" /\ h_encoded.record_size = 23) =>
        PointCountAsEncoded

\* C26, amended: given a header tagged 0x55 followed by n point records of
\* 25 bytes each, the track-point decoder returns the header's TrackHead, the
\* pair (first_session_index, last_session_index) and exactly n TrackPoints
\* in encoded order.
C26_TrackPointDecoder ==
    (h_pc = "points_decoded" /\ h_encoded.record_size = 25) =>
        /\ Len(h_raw) = 29 + 25 * Len(h_encoded.points)
        /\ PointCountAsEncoded
        /\ PointFieldsAsEncoded

C26_Witness ==
    /\ h_pc = "points_decoded"
    /\ h_encoded.record_size = 25
    /\ h_result.val.session_indices = <<70000, 16777217>>
    /\ Len(h_result.val.track_points) = 2
    /\ h_result.val.track_points[1].latitude.scaled = -33868820
    /\ h_result.val.track_points[2].latitude.scaled = 50123456

\* the TrackInfo returned holds the encoded header and statistics values
TrackInfoAsEncoded ==
    /\ h_result.exc = "none"
    /\ HeadAsEncoded(h_result.val, h_encoded.head)
    /\ h_result.val.memory_block_index = h_encoded.memory_block_index
    /\ h_result.val.id = h_encoded.id
    /\ h_result.val.calories = h_encoded.data.calories
    /\ h_result.val.max_speed = h_encoded.data.max_speed
    /\ h_result.val.max_heart_rate = h_encoded.data.max_heart_rate
    /\ h_result.val.avg_heart_rate = h_encoded.data.avg_heart_rate
    /\ h_result.val.ascending_height = h_encoded.data.ascending_height
    /\ h_result.val.descending_height = h_encoded.data.descending_height
    /\ h_result.val.min_height = h_encoded.data.min_height
    /\ h_result.val.max_height = h_encoded.data.max_height

\* C27 as stated: the track-info decoder accepts exactly a 29-byte header
\* tagged 0x00 followed by a 30-byte statistics block (59 bytes in total) and
\* returns a TrackInfo whose fields equal the encoded values.
C27_StatisticsOf30Bytes ==
    h_pc = "info_decoded" =>
        /\ h_result.exc = "none" <=> Len(h_raw) = 59
        /\ Len(h_raw) = 59 => TrackInfoAsEncoded

\* C27, amended: the track-info decoder accepts exactly a 29-byte header
\* tagged 0x00 followed by a 29-byte statistics block (58 bytes in total) and
\* returns a TrackInfo whose header and statistics fields equal the encoded
\* values; another length raises struct.error.
C27_TrackInfoDecoder ==
    h_pc = "info_decoded" =>
        /\ h_result.exc = "none" <=> Len(h_raw) = 58
        /\ Len(h_raw) = 58 => TrackInfoAsEncoded
        /\ Len(h_raw) # 58 => h_result = Raise("struct.error")

C27_Witness ==
    /\ h_pc = "info_decoded"
    /\ Len(h_raw) = 58
    /\ h_result.exc = "none"
    /\ h_result.val.id = 65535
    /\ h_result.val.max_height = 1027
    /\ h_result.val.no_track_points = 70000

\* the byte strings that differ from raw in exactly one byte, at one of the
\* given positions
SingleByteVariants(raw, positions) ==
    UNION {{[raw EXCEPT ![i] = b] : b \in Byte \ {raw[i]}} : i \in positions}

\* an inbound byte string that unpack_message accepted
InboundAccepted ==
    /\ h_pc = "unpacked"
    /\ h_path = "inbound"
    /\ h_result.exc = "none"

\* C28 as stated: for every raw message unpack_message accepts, every message
\* of the same length that differs from it in exactly one byte (command,
\* length, parameter or checksum byte) is rejected by unpack_message.
C28_AnySingleByte ==
    InboundAccepted =>
        \A v \in SingleByteVariants(h_raw, 1..Len(h_raw)) :
            unpack_message(v).exc # "none"

\* C28, amended: for every raw message unpack_message accepts, every message
\* of the same length that differs from it in exactly one of the length,
\* parameter or checksum bytes is rejected with SQ100MessageException; the
\* command byte is not covered: a change of it alone is accepted.
C28_ChecksumIntegrity ==
    InboundAccepted =>
        /\ \A v \in SingleByteVariants(h_raw, 2..Len(h_raw)) :
               unpack_message(v) = Raise("SQ100MessageException")
        /\ \A v \in SingleByteVariants(h_raw, {1}) :
               unpack_message(v).exc = "none"

C28_Witness ==
    /\ InboundAccepted
    /\ Len(h_raw) = 6
    /\ h_raw[4] # h_raw[5]
    /\ unpack_message([h_raw EXCEPT ![5] = 255])
           = Raise("SQ100MessageException")

\* the ids the parts written in h_astr cover
Covered == UNION {h_encoded[k].lo..h_encoded[k].hi : k \in DOMAIN h_encoded}

\* C30: parse_range maps a comma-separated list of ids and inclusive ranges
\* to the ascending, duplicate-free list of all ids covered; overlapping or
\* repeated parts contribute each id once.
C30_ParseRange ==
    h_pc = "parsed" =>
        /\ h_result.exc = "none"
        /\ {h_result.val[k] : k \in DOMAIN h_result.val} = Covered
        /\ \A j, k \in DOMAIN h_result.val :
               j < k => h_result.val[j] < h_result.val[k]

\* "2,5-7,8,13" -> [2, 5, 6, 7, 8, 13]
C30_Witness ==
    /\ h_pc = "parsed"
    /\ h_astr = <<"2", ",", "5", "-", "7", ",", "8", ",", "1", "3">>
    /\ h_result = Ok(<<2, 5, 6, 7, 8, 13>>)

\* a points reply was accepted in this step
PointsAccepted == pc = "points" /\ pc' = "points_loop"

\* the points requests written for the track being downloaded
PointsRequests ==
    Cardinality({k \in DOMAIN consumed :
                     /\ consumed[k].kind = "track_points"
                     /\ \A j \in k..Len(consumed) :
                            consumed[j].kind # "track_info"})

\* C33: every accepted track-points message strictly increases the number of
\* points accumulated for the current track, so a track announcing N points
\* takes at most N points requests.
C33_PointsProgress ==
    [][/\ PointsAccepted => Len(track_points') > Len(track_points)
       /\ PointsAccepted => PointsRequests' <= track_info.no_track_points]_vars

\* C35: when a requested id is absent from the accepted track list the
\* download aborts after exactly one exchange, the 0x78 list request: the
\* call raises and neither the 0x80 request nor any 0x81 is written.
C35_AbortAfterList ==
    AbsentIdRequested =>
        /\ pc \in {"request", "raised"}
        /\ Len(wire) = 3
        /\ Len(Writes) = 1
        /\ Writes[1].data = EmptyRequest(120)
        /\ tracks = <<>>

\* ids 1 and 3 are requested, the list holds 1 and 2, and the call has raised
C35_Witness ==
    /\ AbsentIdRequested
    /\ pc = "raised"
    /\ exc = "KeyError"
    /\ track_ids = <<1, 3>>
    /\ Len(track_list) = 2
    /\ Len(Writes) = 1

\* the reply on hand is about to be decoded as track data: as the track info
\* of the next requested track, as lap info, or as track points
DecodedAsTrackData ==
    \/ pc = "loop" /\ no_done < Len(track_ids)
    \/ pc \in {"lap_info", "points"}

\* C34: a reply with the end-of-transmission command 0x8a is never decoded
\* as track data: when it arrives before all requested tracks were delivered
\* the download fails, and no Track takes its info, laps or points from it.
C34_FinishNeverDecoded ==
    [][(DecodedAsTrackData /\ msg.command = 138) =>
           /\ pc' = "raised"
           /\ UNCHANGED <<track_info, laps, track_points, tracks>>]_vars

SerialWrites == SelectSeq(sc_log, LAMBDA e : e.op = "write")
SerialReads == SelectSeq(sc_log, LAMBDA e : e.op = "read")
SerialTimeouts == SelectSeq(sc_log, LAMBDA e : e.op = "write_timeout")

\* C37: SerialConnection.query writes the command at most 3 times; it
\* returns the data of the first read that is not empty, having written
\* nothing after it; 3 attempts that all read no data end with
\* SQ100SerialException, and the call raises for no other reason than this
\* or a write that timed out; it never returns empty data.
C37_QueryAttempts ==
    /\ Len(SerialWrites) <= 3
    /\ \A k \in DOMAIN SerialWrites : SerialWrites[k].data = sc_command
    /\ \A k \in DOMAIN SerialReads :
           /\ SerialReads[k].size = 3000
           /\ k < Len(SerialReads) => SerialReads[k].data = <<>>
    /\ sc_pc = "returned" =>
           /\ sc_result.exc = "none"
           /\ sc_result.val # <<>>
           /\ sc_log[Len(sc_log)].op = "read"
           /\ sc_result.val = sc_log[Len(sc_log)].data
           /\ Len(SerialWrites) = Len(SerialReads)
    /\ (Len(SerialReads) = 3 /\ SerialReads[3].data = <<>>) =>
           /\ sc_pc = "raised"
           /\ sc_result.exc = "SQ100SerialException"
           /\ Len(SerialWrites) = 3
    /\ (sc_pc = "raised" /\ SerialTimeouts = <<>>) =>
           /\ Len(SerialWrites) = 3
           /\ Len(SerialReads) = 3
           /\ SerialReads[3].data = <<>>
    /\ sc_pc = "raised" => sc_result.exc = "SQ100SerialException"

\* the third read is the first to return data
C37_Witness ==
    /\ sc_pc = "returned"
    /\ Len(SerialWrites) = 3
    /\ Len(SerialReads) = 3
    /\ sc_result.val = <<0>>

\* a call of download_tracks is over
DownloadOver == cli_pc = "idle" /\ cli_calls > 0

\* the lists handed to get_tracks in the call
Requested ==
    SelectSeq(cli_events, LAMBDA e : e.op = "get_tracks")

\* C31: download_tracks called with an empty track_ids and latest=False
\* returns without a call of get_track_list or get_tracks (no connection is
\* opened, no command is sent) and without writing a file.
C31_NothingToDownload ==
    [][(cli_pc # "idle" /\ cli_given = <<>> /\ ~cli_latest) =>
           /\ cli_events' = <<>>
           /\ cli_files' = cli_files
           /\ cli_pc' \in {"if_empty", "idle"}
           /\ cli_pc' = "idle" => cli_outcome' = "returned"]_vars

\* a second call with an empty list, after a call that wrote files
C31_Witness ==
    /\ DownloadOver
    /\ cli_calls = 2
    /\ cli_files # {}
    /\ cli_arg = "supplied"
    /\ cli_given = <<>>
    /\ ~cli_latest
    /\ cli_outcome = "returned"
    /\ cli_events = <<>>

\* the ids of the entries of the catalog that no entry is later than
MostRecentIds(catalog) ==
    {catalog[k].id : k \in {n \in DOMAIN catalog :
                               \A j \in DOMAIN catalog :
                                   ~date_less(catalog[n].date, catalog[j].date)}}

\* C32: with latest=True download_tracks first asks for the track list and
\* then requests the track_ids it was called with followed by the id of the
\* entry with the most recent date; with an empty track list
\* get_latest_track_id returns None and no id is added.
C32_LatestAdded ==
    /\ cli_latest =>
           /\ Len(Requested) <= 1
           /\ \A k \in DOMAIN Requested :
                  /\ cli_events[1].op = "get_track_list"
                  /\ IF cli_catalog = <<>>
                     THEN Requested[k].track_ids = cli_given
                     ELSE \E id \in MostRecentIds(cli_catalog) :
                              Requested[k].track_ids = Append(cli_given, id)
           /\ (DownloadOver /\ cli_outcome = "returned" /\ Requested = <<>>) =>
                  (cli_catalog = <<>> /\ cli_given = <<>>)
    /\ get_latest_track_id(<<>>) = None
    /\ cli_catalog # <<>> =>
           /\ get_latest_track_id(cli_catalog).some
           /\ get_latest_track_id(cli_catalog).value \in MostRecentIds(cli_catalog)

\* ids 1 and 3 are given and the latest of three entries is the one in the
\* middle, id 3
C32_Witness ==
    /\ cli_latest
    /\ cli_given = <<1, 3>>
    /\ Len(cli_catalog) = 3
    /\ cli_catalog[2].id = 3
    /\ Requested # <<>>
    /\ Requested[1].track_ids = <<1, 3, 3>>
    /\ DownloadOver

\* the track_ids argument as the caller wrote it: the list supplied, or the
\* empty list of the def statement
ArgumentWritten == IF cli_arg = "supplied" THEN cli_given ELSE <<>>

\* C36: calls of download_tracks are independent: the list handed to
\* get_tracks is the call's track_ids argument, followed by the latest id of
\* the device's current track list when latest is set, whatever earlier
\* calls did; and the list object supplied or defaulted as track_ids holds
\* after the call what it held before.
C36_CallsIndependent ==
    /\ \A k \in DOMAIN Requested :
           IF cli_latest /\ cli_catalog # <<>>
           THEN \E id \in MostRecentIds(cli_catalog) :
                    Requested[k].track_ids = Append(ArgumentWritten, id)
           ELSE Requested[k].track_ids = ArgumentWritten
    /\ DownloadOver => bound_list = cli_given

====
